---------------------------- MODULE Spec2Model ----------------------------
(***************************************************************************)
(* Copilot Review to Prompt: the content script (extraction, selection     *)
(* state, debounced refresh), modelled from the content script source that *)
(* is stored in src/RELEASE_NOTES_v1.1.md (lines 302-1500).                *)
(*                                                                         *)
(* A JavaScript string is a sequence of one-character strings, so that     *)
(* trimming, lower-casing, splitting, pattern matching and hashing are     *)
(* computed character by character as the code computes them.              *)
(***************************************************************************)
EXTENDS Integers, Sequences, FiniteSets, TLC

VARIABLES
    arg,    \* input of the pure function under check (a comment root, a frame, a page)
    ret,    \* its result
    pc,     \* "call" before the function has run, "done" after, "idle" when unused
    \* --- the content script running in a tab ---
    location,        \* location.pathname of the tab
    doc,             \* the page tree of the tab
    localStorage,    \* the origin's localStorage: key -> stored text
    suggestions,     \* state.suggestions
    deselected,      \* UI.deselected (a Set, in insertion order)
    ignored,         \* UI.ignored (a Set, in insertion order)
    statusMsg,       \* the text of the panel's status line
    refreshTimers,   \* pending timeouts of the debounced state.refresh (ms left)
    observerTimers,  \* pending timeouts of the debounced observer callback
    response,        \* the reply to the runtime message handled in the last step, if any
    writing,         \* navigator.clipboard.writeText calls of the panel not yet settled
    events,          \* user, page and network events handled so far
    \* --- history kept for the properties ---
    snapshot,        \* the page tree the last extraction run read, if one ran
    lastRun,         \* the last run: whether it read the tree the run before it read,
                     \* and how many state.refresh() calls it served
    burst,           \* state.refresh() calls since the last extraction run
    sinceRequest,    \* ms since the last state.refresh() call (capped)
    owed,            \* a relevant mutation batch was observed and no run followed yet
    deselectedAt,    \* <<pathname, id>>: id was deselected while the tab was there
    ignoredAt        \* <<pathname, id>>: id was ignored while the tab was there

(***************************************************************************)
(* Characters                                                              *)
(***************************************************************************)
\* The printable ASCII characters in code order: Ascii[i] has char code 31 + i
\* (the grave accent, code 96, is written "GRAVE").
Ascii ==
    <<" ","!","\"","#","$","%","&","'","(",")","*","+",",","-",".","/",
      "0","1","2","3","4","5","6","7","8","9",":",";","<","=",">","?",
      "@","A","B","C","D","E","F","G","H","I","J","K","L","M","N","O",
      "P","Q","R","S","T","U","V","W","X","Y","Z","[","\\","]","^","_",
      "GRAVE","a","b","c","d","e","f","g","h","i","j","k","l","m","n","o",
      "p","q","r","s","t","u","v","w","x","y","z","{","|","}","~">>

\* String.prototype.charCodeAt for one character.
charCodeAt(c) ==
    IF c = "\n" THEN 10
    ELSE IF c = "\t" THEN 9
    ELSE 31 + (CHOOSE i \in 1..Len(Ascii) : Ascii[i] = c)

IsUpper(c) == c \in {Ascii[i] : i \in 34..59}
IsDigit(c) == c \in {Ascii[i] : i \in 17..26}
\* \s of a JavaScript regular expression, and the characters trim() removes.
IsSpace(c) == c \in {" ", "\n", "\t"}
\* \w of a JavaScript regular expression.
IsWordChar(c) == c \in {Ascii[i] : i \in (17..26) \cup (34..59) \cup (66..91)} \cup {"_"}

LowerChar(c) == IF IsUpper(c) THEN Ascii[(charCodeAt(c) - 31) + 32] ELSE c

\* String.prototype.toLowerCase
toLowerCase(s) == [i \in 1..Len(s) |-> LowerChar(s[i])]

\* String.prototype.trim
trim(s) ==
    LET keep == {i \in 1..Len(s) : ~IsSpace(s[i])}
    IN  IF keep = {} THEN <<>>
        ELSE SubSeq(s, CHOOSE i \in keep : \A j \in keep : i <= j,
                       CHOOSE i \in keep : \A j \in keep : j <= i)

\* String.prototype.startsWith at position p (1-based).
StartsWithAt(s, p, pre) ==
    /\ p + Len(pre) - 1 <= Len(s)
    /\ \A k \in 1..Len(pre) : s[p + k - 1] = pre[k]

\* String.prototype.includes
includes(s, sub) == \E p \in 1..(Len(s) + 1) : StartsWithAt(s, p, sub)

\* String.prototype.split(sep) for a one-character separator.
RECURSIVE SplitOn(_, _)
SplitOn(s, sep) ==
    LET at == {i \in 1..Len(s) : s[i] = sep}
    IN  IF at = {} THEN <<s>>
        ELSE LET i == CHOOSE x \in at : \A y \in at : x <= y
             IN  <<SubSeq(s, 1, i - 1)>> \o SplitOn(SubSeq(s, i + 1, Len(s)), sep)

SplitLines(s) == SplitOn(s, "\n")

\* Array.prototype.join
RECURSIVE Join(_, _)
Join(parts, sep) ==
    IF parts = <<>> THEN <<>>
    ELSE IF Len(parts) = 1 THEN parts[1]
    ELSE parts[1] \o sep \o Join(Tail(parts), sep)

(***************************************************************************)
(* hashString: 32-bit FNV-1a, rendered in base 36.  A 32-bit word is kept  *)
(* as two 16-bit halves so that every intermediate value of the            *)
(* multiplication by the FNV prime 2^24 + 2^8 + 0x93 stays exact.          *)
(***************************************************************************)
RECURSIVE BitXor(_, _, _)
BitXor(a, b, bits) ==
    IF bits = 0 THEN 0
    ELSE (((a % 2) + (b % 2)) % 2) + 2 * BitXor(a \div 2, b \div 2, bits - 1)

\* 0x811c9dc5, the FNV offset basis.
FnvOffset == [hi |-> 33052, lo |-> 40389]

\* h ^= c;  h += (h << 1) + (h << 4) + (h << 7) + (h << 8) + (h << 24)   (mod 2^32)
FnvStep(h, c) ==
    LET lo == BitXor(h.lo, charCodeAt(c), 16)
        p  == lo * 403
    IN  [lo |-> (p % 65536),
         hi |-> (h.hi * 403 + (p \div 65536) + (lo % 256) * 256) % 65536]

RECURSIVE FnvFold(_, _)
FnvFold(h, s) == IF s = <<>> THEN h ELSE FnvFold(FnvStep(h, Head(s)), Tail(s))

Base36Digits ==
    <<"0","1","2","3","4","5","6","7","8","9","a","b","c","d","e","f","g","h","i",
      "j","k","l","m","n","o","p","q","r","s","t","u","v","w","x","y","z">>

\* (h >>> 0).toString(36)
RECURSIVE ToBase36(_)
ToBase36(h) ==
    LET qhi  == h.hi \div 36
        mid  == (h.hi % 36) * 65536 + h.lo
        q    == [hi |-> qhi, lo |-> mid \div 36]
        d    == <<Base36Digits[(mid % 36) + 1]>>
    IN  IF q.hi = 0 /\ q.lo = 0 THEN d ELSE ToBase36(q) \o d

hashString(str) == ToBase36(FnvFold(FnvOffset, str))

(***************************************************************************)
(* The page tree.  A comment body (.js-comment-body / .comment-body) is a  *)
(* sequence of block elements in document order:                           *)
(*   "p"       a paragraph (its text may hold several lines),              *)
(*   "li"      a list item of a ul / ol,                                   *)
(*   "details" a details element: a summary, and a pre holding text,       *)
(*   "table"   a .js-suggested-changes-blob table: rows of (mark, text),   *)
(*   "pre"     a preformatted block.                                       *)
(* Rendered Markdown separates block elements by a newline text node.      *)
(***************************************************************************)
Block(kind, text, summary, rows) ==
    [kind |-> kind, text |-> text, summary |-> summary, rows |-> rows]

NL == <<"\n">>

RECURSIVE RowTexts(_)
RowTexts(rows) ==
    IF rows = <<>> THEN <<>> ELSE <<Head(rows).text>> \o RowTexts(Tail(rows))

\* Node.textContent of one block element.
BlockText(b) ==
    CASE b.kind = "details" -> b.summary \o NL \o b.text
      [] b.kind = "table"   -> Join(RowTexts(b.rows), NL)
      [] OTHER              -> b.text

\* Node.textContent of a body.
textContent(body) == Join([i \in 1..Len(body) |-> BlockText(body[i])], NL)

\* safeText = (el?.textContent || "").trim(), applied to the text of el.
safeText(text) == trim(text)

\* container.querySelectorAll("ul li, ol li") -> the trimmed, non-empty texts.
RECURSIVE extractListItems(_)
extractListItems(body) ==
    IF body = <<>> THEN <<>>
    ELSE LET b   == Head(body)
             txt == safeText(b.text)
         IN  (IF b.kind = "li" /\ txt # <<>> THEN <<txt>> ELSE <<>>)
             \o extractListItems(Tail(body))

\* Number of leading characters of s, from position p, that satisfy \s.
RECURSIVE SpaceRun(_, _)
SpaceRun(s, p) ==
    IF p <= Len(s) /\ IsSpace(s[p]) THEN 1 + SpaceRun(s, p + 1) ELSE 0

\* Number of leading characters of s, from position p, that satisfy \d.
RECURSIVE DigitRun(_, _)
DigitRun(s, p) ==
    IF p <= Len(s) /\ IsDigit(s[p]) THEN 1 + DigitRun(s, p + 1) ELSE 0

\* The keywords of the second alternative of the line pattern.
Keywords ==
    << <<"s","u","g","g","e","s","t","i","o","n">>, <<"f","i","x">>, <<"i","m","p","r","o","v","e">>, <<"c","h","a","n","g","e">>, <<"r","e","f","a","c","t","o","r">>,
       <<"r","e","n","a","m","e">>, <<"r","e","m","o","v","e">>, <<"a","d","d">>, <<"u","p","d","a","t","e">> >>

\* ^(-|\*|\d+\.)\s+(.+)$ on a trimmed line: the capture m[2], or <<>> for no match.
BulletCapture(line) ==
    LET d   == DigitRun(line, 1)
        pre == IF line # <<>> /\ line[1] \in {"-", "*"} THEN 1
               ELSE IF d > 0 /\ d < Len(line) /\ line[d + 1] = "." THEN d + 1
               ELSE 0
        w   == SpaceRun(line, pre + 1)
    IN  IF pre > 0 /\ w > 0 /\ pre + w < Len(line)
        THEN SubSeq(line, pre + w + 1, Len(line))
        ELSE <<>>

\* ^(suggestion|fix|...)[:\-]\s*(.+)$ with flag i: the capture m[4], or <<>>.
KeywordCapture(line) ==
    LET low  == toLowerCase(line)
        hits == {k \in 1..Len(Keywords) :
                    /\ StartsWithAt(low, 1, Keywords[k])
                    /\ Len(Keywords[k]) < Len(line)
                    /\ line[Len(Keywords[k]) + 1] \in {":", "-"}}
    IN  IF hits = {} THEN <<>>
        ELSE LET k   == CHOOSE x \in hits : \A y \in hits : x <= y
                 pre == Len(Keywords[k]) + 1
                 w   == SpaceRun(line, pre + 1)
             IN  IF pre + w < Len(line)
                 THEN SubSeq(line, pre + w + 1, Len(line))
                 ELSE <<>>

\* candidate.replace(/^["'\s]+|["'\s]+$/g, "")
StripQuotes(s) ==
    LET keep == {i \in 1..Len(s) : ~(IsSpace(s[i]) \/ s[i] \in {"\"", "'"})}
    IN  IF keep = {} THEN <<>>
        ELSE SubSeq(s, CHOOSE i \in keep : \A j \in keep : i <= j,
                       CHOOSE i \in keep : \A j \in keep : j <= i)

\* The loop of extractPatternLines over the trimmed, non-empty lines.
RECURSIVE PatternItems(_)
PatternItems(lines) ==
    IF lines = <<>> THEN <<>>
    ELSE LET line == trim(Head(lines))
             m2   == BulletCapture(line)
             m4   == IF m2 # <<>> THEN <<>> ELSE KeywordCapture(line)
             cleaned == IF m2 # <<>> THEN StripQuotes(m2) ELSE StripQuotes(m4)
         IN  (IF line # <<>> /\ (m2 # <<>> \/ m4 # <<>>) /\ cleaned # <<>>
              THEN <<cleaned>> ELSE <<>>)
             \o PatternItems(Tail(lines))

extractPatternLines(body) ==
    LET text == safeText(textContent(body))
    IN  IF text = <<>> THEN <<>> ELSE PatternItems(SplitLines(text))

SuggestedChangePrefix == <<"S","u","g","g","e","s","t","e","d"," ","c","h","a","n","g","e",":">>  \o NL
SuggestedDiffPrefix   == <<"S","u","g","g","e","s","t","e","d"," ","d","i","f","f",":">> \o NL

\* 1) details whose summary mentions "suggested change" or "suggestion".
RECURSIVE DetailsItems(_)
DetailsItems(body) ==
    IF body = <<>> THEN <<>>
    ELSE LET b == Head(body)
             summaryText == toLowerCase(safeText(b.summary))
             code == safeText(b.text)
         IN  (IF /\ b.kind = "details"
                 /\ \/ includes(summaryText, <<"s","u","g","g","e","s","t","e","d"," ","c","h","a","n","g","e">>)
                    \/ includes(summaryText, <<"s","u","g","g","e","s","t","i","o","n">>)
                 /\ code # <<>>
              THEN <<SuggestedChangePrefix \o code>> ELSE <<>>)
             \o DetailsItems(Tail(body))

\* The rows of one suggested-changes table as unified-diff-like lines.
RECURSIVE DiffLines(_)
DiffLines(rows) ==
    IF rows = <<>> THEN <<>>
    ELSE LET r   == Head(rows)
             txt == safeText(r.text)
         IN  (IF txt = <<>> THEN <<>>
              ELSE IF r.mark = "deletion" THEN << <<"-", " ">> \o txt >>
              ELSE IF r.mark = "addition" THEN << <<"+", " ">> \o txt >>
              ELSE << <<" ", " ">> \o txt >>)
             \o DiffLines(Tail(rows))

\* 2) .js-suggested-changes-blob tables.
RECURSIVE TableItems(_)
TableItems(body) ==
    IF body = <<>> THEN <<>>
    ELSE LET b    == Head(body)
             diff == trim(Join(DiffLines(b.rows), NL))
         IN  (IF b.kind = "table" /\ diff # <<>>
              THEN <<SuggestedDiffPrefix \o diff>> ELSE <<>>)
             \o TableItems(Tail(body))

\* /^(?:\+|\-|\s|@@|diff)/m.test(code)
LooksLikeDiff(code) ==
    \E p \in 1..Len(code) :
        /\ (p = 1 \/ code[p - 1] = "\n")
        /\ \/ code[p] \in {"+", "-"}
           \/ IsSpace(code[p])
           \/ StartsWithAt(code, p, <<"@", "@">>)
           \/ StartsWithAt(code, p, <<"d","i","f","f">>)

\* 3) pre elements (the pre of a details element is one of them).
RECURSIVE PreItems(_)
PreItems(body) ==
    IF body = <<>> THEN <<>>
    ELSE LET b    == Head(body)
             code == safeText(b.text)
         IN  (IF b.kind \in {"pre", "details"} /\ code # <<>> /\ LooksLikeDiff(code)
              THEN <<SuggestedDiffPrefix \o code>> ELSE <<>>)
             \o PreItems(Tail(body))

extractSuggestedChangeBlocks(body) ==
    DetailsItems(body) \o TableItems(body) \o PreItems(body)

\* dedupe: keeps the first of the strings that agree after toLowerCase().
RECURSIVE DedupeFrom(_, _)
DedupeFrom(arr, seen) ==
    IF arr = <<>> THEN <<>>
    ELSE LET key == toLowerCase(Head(arr))
         IN  IF key \in seen THEN DedupeFrom(Tail(arr), seen)
             ELSE <<Head(arr)>> \o DedupeFrom(Tail(arr), seen \cup {key})

\* dedupe with the key taken as the string itself (no toLowerCase).
RECURSIVE DedupeExactFrom(_, _)
DedupeExactFrom(arr, seen) ==
    IF arr = <<>> THEN <<>>
    ELSE IF Head(arr) \in seen THEN DedupeExactFrom(Tail(arr), seen)
    ELSE <<Head(arr)>> \o DedupeExactFrom(Tail(arr), seen \cup {Head(arr)})

dedupe_CaseSensitive(arr) == DedupeExactFrom(arr, {})

dedupe(arr) == DedupeFrom(arr, {})

(***************************************************************************)
(* A comment-root candidate (article, .js-comment, div[id^="discussion_r"]):*)
(* the author link (text, href), the bot badge text, whether it holds a    *)
(* "div.edit-comment-hide > task-lists" element, and the comment body      *)
(* (hasBody is FALSE when it has no .js-comment-body / .comment-body).     *)
(***************************************************************************)
CommentRoot(authorText, authorHref, botText, hasTaskLists, hasBody, body) ==
    [authorText |-> authorText, authorHref |-> authorHref, botText |-> botText,
     hasTaskLists |-> hasTaskLists, hasBody |-> hasBody, body |-> body]

extractSuggestionsFromComment(commentRoot) ==
    IF ~commentRoot.hasBody THEN <<>>
    ELSE dedupe(extractListItems(commentRoot.body)
                \o extractPatternLines(commentRoot.body)
                \o extractSuggestedChangeBlocks(commentRoot.body))

(***************************************************************************)
(* A review-thread container (turbo-frame): its id, the header text of     *)
(* "details-collapsible details > div > div:first-child" (if present), the *)
(* data-line-number attribute values, the .blob-num cell texts, the hrefs  *)
(* of its "#L" / "#R" anchors, and its comment roots, in document order.   *)
(***************************************************************************)
Frame(id, hasLineDiv, lineText, dataLineNumbers, blobNums, hrefs, comments) ==
    [id |-> id, hasLineDiv |-> hasLineDiv, lineText |-> lineText,
     dataLineNumbers |-> dataLineNumbers, blobNums |-> blobNums, hrefs |-> hrefs,
     comments |-> comments]

\* A JavaScript number n is written <<n>>; NaN and null are the empty tuple.
Num(n) == <<n>>
NaN  == <<>>
Null == <<>>

DigitValue(c) == charCodeAt(c) - 48

RECURSIVE DigitsValue(_, _)
DigitsValue(s, acc) ==
    IF s = <<>> THEN acc ELSE DigitsValue(Tail(s), 10 * acc + DigitValue(Head(s)))

\* Number.prototype.toString for a non-negative integer.
RECURSIVE ToDigits(_)
ToDigits(n) ==
    IF n < 10 THEN <<Ascii[17 + n]>> ELSE ToDigits(n \div 10) \o <<Ascii[17 + (n % 10)]>>

\* parseInt(str, 10): leading white space, an optional sign, then digits.
parseInt(str) ==
    LET w    == SpaceRun(str, 1)
        sign == IF w < Len(str) /\ str[w + 1] \in {"+", "-"} THEN 1 ELSE 0
        d    == DigitRun(str, w + sign + 1)
        n    == DigitsValue(SubSeq(str, w + sign + 1, w + sign + d), 0)
    IN  IF d = 0 THEN NaN
        ELSE IF sign = 1 /\ str[w + 1] = "-" THEN Num(0 - n) ELSE Num(n)

\* For /Lines?\s+(\d+).../i starting at position p of the lower-cased text:
\* the position of the first digit of m[1], or 0 when there is no match at p.
LinesDigitsAt(low, p) ==
    IF ~StartsWithAt(low, p, <<"l","i","n","e">>) THEN 0
    ELSE LET q == IF p + 4 <= Len(low) /\ low[p + 4] = "s" THEN p + 5 ELSE p + 4
             w == SpaceRun(low, q)
         IN  IF w > 0 /\ DigitRun(low, q + w) > 0 THEN q + w ELSE 0

\* text.match(/Lines?\s+(\d+)(?:-(\d+))?/i): the captures <<m[1], m[2]>> of the
\* leftmost match (m[2] is <<>> when the group did not take part), or <<>>.
LinesMatch(text) ==
    LET low    == toLowerCase(text)
        starts == {p \in 1..Len(low) : LinesDigitsAt(low, p) > 0}
    IN  IF starts = {} THEN <<>>
        ELSE LET p  == CHOOSE x \in starts : \A y \in starts : x <= y
                 a  == LinesDigitsAt(low, p)
                 d1 == DigitRun(low, a)
                 d2 == IF a + d1 <= Len(low) /\ low[a + d1] = "-"
                       THEN DigitRun(low, a + d1 + 1) ELSE 0
             IN  << SubSeq(text, a, a + d1 - 1),
                    IF d2 > 0 THEN SubSeq(text, a + d1 + 1, a + d1 + d2) ELSE <<>> >>

\* The line numbers read from the header text.
HeaderNums(frame) ==
    IF ~frame.hasLineDiv THEN {}
    ELSE LET m == LinesMatch(safeText(frame.lineText))
         IN  IF m = <<>> THEN {}
             ELSE LET start == parseInt(m[1])
                      end   == IF m[2] # <<>> THEN parseInt(m[2]) ELSE start
                  IN  {start, end} \ {NaN}   \* if (!Number.isNaN(..)) nums.add(..)

\* [data-line-number] attributes and .blob-num cell texts, through parseInt.
ParsedNums(texts) == {parseInt(safeText(texts[i])) : i \in 1..Len(texts)} \ {NaN}

\* href.match(/#(?:L|R)(\d+)/): the digits of the leftmost match, or <<>>.
AnchorMatch(href) ==
    LET starts == {p \in 1..Len(href) :
                      /\ href[p] = "#"
                      /\ p + 1 <= Len(href) /\ href[p + 1] \in {"L", "R"}
                      /\ DigitRun(href, p + 2) > 0}
    IN  IF starts = {} THEN <<>>
        ELSE LET p == CHOOSE x \in starts : \A y \in starts : x <= y
             IN  SubSeq(href, p + 2, p + 1 + DigitRun(href, p + 2))

AnchorNums(hrefs) ==
    {parseInt(AnchorMatch(hrefs[i])) : i \in {k \in 1..Len(hrefs) : AnchorMatch(hrefs[k]) # <<>>}}

\* The locator without its "#L" / "#R" anchor source.
findLineRangeInFrame_NoAnchors(frame) ==
    LET nums == HeaderNums(frame) \cup ParsedNums(frame.dataLineNumbers)
                \cup ParsedNums(frame.blobNums)
    IN  IF nums = {} THEN [lineStart |-> Null, lineEnd |-> Null]
        ELSE [lineStart |-> CHOOSE n \in nums : \A k \in nums : n[1] <= k[1],
              lineEnd   |-> CHOOSE n \in nums : \A k \in nums : k[1] <= n[1]]

findLineRangeInFrame(frame) ==
    LET nums == HeaderNums(frame) \cup ParsedNums(frame.dataLineNumbers)
                \cup ParsedNums(frame.blobNums) \cup AnchorNums(frame.hrefs)
    IN  IF nums = {} THEN [lineStart |-> Null, lineEnd |-> Null]
        ELSE [lineStart |-> CHOOSE n \in nums : \A k \in nums : n[1] <= k[1],
              lineEnd   |-> CHOOSE n \in nums : \A k \in nums : k[1] <= n[1]]

(***************************************************************************)
(* Classifier and orchestrator                                             *)
(***************************************************************************)
\* /\bcopilot\b/.test(text)
HasCopilotWord(text) ==
    \E p \in 1..Len(text) :
        /\ StartsWithAt(text, p, <<"c","o","p","i","l","o","t">>)
        /\ (p = 1 \/ ~IsWordChar(text[p - 1]))
        /\ (p + 7 > Len(text) \/ ~IsWordChar(text[p + 7]))

\* /ai\s+review/.test(text)
HasAiReview(text) ==
    \E p \in 1..Len(text) :
        /\ StartsWithAt(text, p, <<"a", "i">>)
        /\ SpaceRun(text, p + 2) > 0
        /\ StartsWithAt(text, p + 2 + SpaceRun(text, p + 2), <<"r","e","v","i","e","w">>)

\* /github-?copilot/.test(href)
HasCopilotHref(href) ==
    includes(href, <<"g","i","t","h","u","b","c","o","p","i","l","o","t">>) \/ includes(href, <<"g","i","t","h","u","b","-","c","o","p","i","l","o","t">>)

\* A classifier that looks at the author link and the badge only.
isCopilotAuthor_AuthorOnly(commentRoot) ==
    LET authorText == toLowerCase(safeText(commentRoot.authorText))
        botText    == toLowerCase(safeText(commentRoot.botText))
    IN  \/ includes(authorText, <<"c","o","p","i","l","o","t">>)
        \/ HasCopilotHref(commentRoot.authorHref)
        \/ (includes(botText, <<"b","o","t">>) /\ includes(authorText, <<"c","o","p","i","l","o","t">>))

isCopilotAuthor(commentRoot) ==
    LET authorText == toLowerCase(safeText(commentRoot.authorText))
        botText    == toLowerCase(safeText(commentRoot.botText))
        bodyText   == IF commentRoot.hasBody
                      THEN toLowerCase(safeText(textContent(commentRoot.body)))
                      ELSE <<>>
    IN  \/ includes(authorText, <<"c","o","p","i","l","o","t">>)
        \/ HasCopilotHref(commentRoot.authorHref)
        \/ (includes(botText, <<"b","o","t">>) /\ includes(authorText, <<"c","o","p","i","l","o","t">>))
        \/ HasCopilotWord(bodyText)
        \/ HasAiReview(bodyText)

\* The candidates that hold a comment body or a task-lists element.
LooksLikeCommentRoot(c) == c.hasBody \/ c.hasTaskLists

findCommentRootsInTurboFrame(frame) == SelectSeq(frame.comments, LooksLikeCommentRoot)

\* The id composed without the comment index.
MakeId_NoCommentIndex(frame, idx, i, text) ==
    frame.id \o <<":">> \o ToDigits(i) \o <<":">> \o hashString(text)

\* ${frameId}:${idx}:${i}:${hashString(text)}.  The selector of the frames
\* requires a non-empty id, so frameId is frame.id.
MakeId(frame, idx, i, text) ==
    frame.id \o <<":">> \o ToDigits(idx) \o <<":">> \o ToDigits(i) \o <<":">> \o hashString(text)

\* suggestions.forEach((text, i) => all.push({...})), from item index i on.
RECURSIVE PushSuggestions(_, _, _, _, _, _)
PushSuggestions(frame, idx, copilot, range, texts, i) ==
    IF i >= Len(texts) THEN <<>>
    ELSE << [id        |-> MakeId(frame, idx, i, texts[i + 1]),
             text      |-> texts[i + 1],
             isCopilot |-> copilot,
             lineStart |-> range.lineStart,
             lineEnd   |-> range.lineEnd] >>
         \o PushSuggestions(frame, idx, copilot, range, texts, i + 1)

\* The records pushed for one comment root (idx counts from 0).
SuggestionsOfComment(frame, commentRoot, idx) ==
    PushSuggestions(frame, idx, isCopilotAuthor(commentRoot), findLineRangeInFrame(frame),
                    extractSuggestionsFromComment(commentRoot), 0)

RECURSIVE ConcatAll(_)
ConcatAll(seqs) == IF seqs = <<>> THEN <<>> ELSE Head(seqs) \o ConcatAll(Tail(seqs))

\* comments.forEach((commentRoot, idx) => ...), from comment index idx on.
RECURSIVE FrameLoop(_, _, _)
FrameLoop(frame, comments, idx) ==
    IF idx >= Len(comments) THEN <<>>
    ELSE SuggestionsOfComment(frame, comments[idx + 1], idx)
         \o FrameLoop(frame, comments, idx + 1)

SuggestionsOfFrame(frame) == FrameLoop(frame, findCommentRootsInTurboFrame(frame), 0)

\* The list "all" built by the loops of extractAllSuggestions over the frames.
RECURSIVE Candidates(_)
Candidates(frames) ==
    IF frames = <<>> THEN <<>> ELSE SuggestionsOfFrame(Head(frames)) \o Candidates(Tail(frames))

\* The filter applied whether or not a reviewer-authored candidate exists.
IsCopilotSuggestion(s) == s.isCopilot

GlobalFilter_Always(all) == SelectSeq(all, IsCopilotSuggestion)

\* hasCopilot ? all.filter((s) => s.isCopilot) : all
GlobalFilter(all) ==
    IF \E k \in 1..Len(all) : all[k].isCopilot
    THEN SelectSeq(all, IsCopilotSuggestion)
    ELSE all

\* A page: the turbo-frame[id^="review-thread-or-comment-id-"] elements of the
\* document, in document order.
extractAllSuggestions(frames) == GlobalFilter(Candidates(frames))


(***************************************************************************)
(* The variables of the content script and the value they hold in the      *)
(* specifications that check a single function.                            *)
(***************************************************************************)
sysvars == <<location, doc, localStorage, suggestions, deselected, ignored, statusMsg,
             refreshTimers, observerTimers, response, events, snapshot, lastRun, burst,
             sinceRequest, owed, deselectedAt, ignoredAt, writing>>

vars == <<arg, ret, pc, sysvars>>

SysIdle ==
    /\ location = <<>>
    /\ doc = <<>>
    /\ localStorage = <<>>
    /\ suggestions = <<>>
    /\ deselected = <<>>
    /\ ignored = <<>>
    /\ statusMsg = <<>>
    /\ refreshTimers = {}
    /\ observerTimers = {}
    /\ response = <<>>
    /\ events = 0
    /\ snapshot = [taken |-> FALSE, tree |-> <<>>]
    /\ lastRun = [kind |-> "none", served |-> 0]
    /\ burst = 0
    /\ sinceRequest = 0
    /\ owed = FALSE
    /\ deselectedAt = {}
    /\ ignoredAt = {}
    /\ writing = <<>>

(***************************************************************************)
(* Inputs of the segmenter check: bodies of at most MaxBlocks blocks drawn *)
(* from a palette that holds every block kind, plain and structured text,  *)
(* and items that differ only in case.                                     *)
(***************************************************************************)
MaxBlocks == 2

Para(text) == Block("p", text, <<>>, <<>>)
Li(text)   == Block("li", text, <<>>, <<>>)
Pre(text)  == Block("pre", text, <<>>, <<>>)
Details(summary, text) == Block("details", text, summary, <<>>)
Table(rows) == Block("table", <<>>, <<>>, rows)
Row(mark, text) == [mark |-> mark, text |-> text]

BlockPalette ==
    { Para(<<"U","s","e"," ","c","o","n","s","t"," ","i","n","s","t","e","a","d"," ","o","f"," ","l","e","t"," ","h","e","r","e",".">>),
      Para(<<"L","G","T","M">>),
      Para(<<"F","i","x",":"," ","r","e","n","a","m","e"," ","x">>),
      Para(<<"-"," ","R","e","n","a","m","e"," ","x">> \o NL \o <<"*"," ","r","e","n","a","m","e"," ","X">>),
      Para(<<" ">>),
      Li(<<"R","e","n","a","m","e"," ","x">>),
      Li(<<"f","i","x",":"," ","'","r","e","n","a","m","e"," ","x","'">>),
      Details(<<"S","u","g","g","e","s","t","e","d"," ","c","h","a","n","g","e">>, <<"+"," ","c","o","n","s","t"," ","a"," ","="," ","1",";">>),
      Pre(<<"x"," ","="," ","1">>),
      Table(<<Row("deletion", <<"l","e","t"," ","a">>), Row("addition", <<"c","o","n","s","t"," ","a">>)>>) }

RECURSIVE SeqsUpTo(_, _)
SeqsUpTo(S, n) ==
    IF n = 0 THEN {<<>>}
    ELSE LET shorter == SeqsUpTo(S, n - 1)
         IN  shorter \cup {Append(s, x) : s \in {t \in shorter : Len(t) = n - 1}, x \in S}

SegInputs ==
    {CommentRoot(<<>>, <<>>, <<>>, FALSE, FALSE, <<>>)}
    \cup {CommentRoot(<<>>, <<>>, <<>>, FALSE, TRUE, body) : body \in SeqsUpTo(BlockPalette, MaxBlocks)}

SegInit == SysIdle /\ pc = "call" /\ arg \in SegInputs /\ ret = <<>>

\* One call of extractSuggestionsFromComment.
SegCall ==
    /\ pc = "call"
    /\ ret' = extractSuggestionsFromComment(arg)
    /\ pc' = "done"
    /\ UNCHANGED <<arg, sysvars>>

SegNext == SegCall

SegSpec == SegInit /\ [][SegNext]_vars

\* The three structured strategies of the segmenter, concatenated.
Structured(commentRoot) ==
    IF ~commentRoot.hasBody THEN <<>>
    ELSE extractListItems(commentRoot.body)
         \o extractPatternLines(commentRoot.body)
         \o extractSuggestedChangeBlocks(commentRoot.body)

FlatText(commentRoot) ==
    IF commentRoot.hasBody THEN safeText(textContent(commentRoot.body)) ELSE <<>>

\* C2: when the list-item, pattern-line and suggested-change strategies all
\* produce nothing, the segmenter returns the flattened body text as its only
\* element if that text is longer than 10 characters, and nothing otherwise.
C2_PlainTextFallback ==
    (pc = "done" /\ Structured(arg) = <<>>)
        => ret = (IF Len(FlatText(arg)) > 10 THEN <<FlatText(arg)>> ELSE <<>>)

DedupKey(s) == toLowerCase(trim(s))

FirstIndex(seq, key) ==
    CHOOSE i \in 1..Len(seq) :
        /\ DedupKey(seq[i]) = key
        /\ \A j \in 1..(i - 1) : DedupKey(seq[j]) # key

\* C3: the segmenter's result holds no two elements that agree after
\* lower-casing and trimming, holds every item of the concatenated strategies
\* once, each as its first occurrence, in the order of first occurrence.
C3_DedupFirstSeen ==
    pc = "done" =>
        LET cat == Structured(arg)
        IN  /\ \A i, j \in 1..Len(ret) : i < j => DedupKey(ret[i]) # DedupKey(ret[j])
            /\ \A k \in 1..Len(cat) : \E i \in 1..Len(ret) : DedupKey(ret[i]) = DedupKey(cat[k])
            /\ \A i \in 1..Len(ret) :
                   /\ \E k \in 1..Len(cat) : DedupKey(cat[k]) = DedupKey(ret[i])
                   /\ ret[i] = cat[FirstIndex(cat, DedupKey(ret[i]))]
            /\ \A i, j \in 1..Len(ret) :
                   i < j => FirstIndex(cat, DedupKey(ret[i])) < FirstIndex(cat, DedupKey(ret[j]))

\* A call in which two items differ only in case and one of them was dropped.
C3_Witness ==
    /\ pc = "done"
    /\ Len(ret) >= 2
    /\ Len(ret) < Len(Structured(arg))
    /\ \E i, j \in 1..Len(Structured(arg)) :
          /\ Structured(arg)[i] # Structured(arg)[j]
          /\ DedupKey(Structured(arg)[i]) = DedupKey(Structured(arg)[j])

(***************************************************************************)
(* Inputs of the line-range check: line numbers up to MaxLineNo, written   *)
(* into the header text in the formats GitHub shows, and into the other    *)
(* line sources.                                                           *)
(***************************************************************************)
MaxLineNo == 12

LinesText(x, y)   == <<"L","i","n","e","s"," ">> \o ToDigits(x) \o <<"-">> \o ToDigits(y)
OnLinesText(x, y) ==
    <<"C","o","m","m","e","n","t"," ","o","n"," ","l","i","n","e","s"," ","+">> \o ToDigits(x) \o <<" ","t","o"," ","+">> \o ToDigits(y)

HeaderTexts ==
    {LinesText(x, y) : x \in 1..MaxLineNo, y \in 1..MaxLineNo}
    \cup {OnLinesText(x, y) : x \in 1..MaxLineNo, y \in 1..MaxLineNo}
    \cup {<<"L","i","n","e"," ">> \o ToDigits(x) : x \in 1..MaxLineNo}
    \cup {<<"O","u","t","d","a","t","e","d">>}

LineInputs ==
    {Frame(<<"r","e","v","i","e","w","-","t","h","r","e","a","d","-","o","r","-","c","o","m","m","e","n","t","-","i","d","-","1">>, TRUE, t, <<>>, <<>>, <<>>, <<>>) :
        t \in HeaderTexts}
    \cup {Frame(<<"r","e","v","i","e","w","-","t","h","r","e","a","d","-","o","r","-","c","o","m","m","e","n","t","-","i","d","-","1">>, h, <<"L","i","n","e","s"," ","3","-","4">>, d, b, a, c) :
            h \in BOOLEAN,
            c \in {<<>>, <<CommentRoot(<<"C","o","p","i","l","o","t">>, <<"/","a","p","p","s","/","c","o","p","i","l","o","t">>, <<"A","I">>, FALSE, TRUE, <<Li(<<"U","s","e"," ","y">>)>>)>>},
            d \in {<<>>, <<<<"5">>>>, <<<<"x">>>>},
            b \in {<<>>, <<<<"+","9">>, <<" ","2"," ">>>>},
            a \in {<<>>, <<<<"/","o","/","r","/","p","u","l","l","/","1","/","f","i","l","e","s","#","R","1","1">>>>, <<<<"#","d","i","s","c","u","s","s","i","o","n","_","r","1">>>>}}

LineInit == SysIdle /\ pc = "call" /\ arg \in LineInputs /\ ret = <<>>

\* One call of findLineRangeInFrame.
LineCall ==
    /\ pc = "call"
    /\ ret' = findLineRangeInFrame(arg)
    /\ pc' = "done"
    /\ UNCHANGED <<arg, sysvars>>

LineNext == LineCall

LineSpec == LineInit /\ [][LineNext]_vars

OnlyHeaderEvidence(frame) ==
    frame.hasLineDiv /\ frame.dataLineNumbers = <<>> /\ frame.blobNums = <<>> /\ frame.hrefs = <<>>

\* C10: for a container whose only line evidence is its header text, the texts
\* "Lines X-Y" and "Comment on lines +X to +Y" (X <= Y) both give lineStart = X
\* and lineEnd = Y.
C10_HeaderFormats ==
    (pc = "done" /\ OnlyHeaderEvidence(arg)) =>
        \A x, y \in 1..MaxLineNo :
            (x <= y /\ arg.lineText \in {LinesText(x, y), OnLinesText(x, y)})
                => ret = [lineStart |-> Num(x), lineEnd |-> Num(y)]


\* The candidates of all the sources of the locator, merged.
LineCandidates(frame) ==
    HeaderNums(frame) \cup ParsedNums(frame.dataLineNumbers)
        \cup ParsedNums(frame.blobNums) \cup AnchorNums(frame.hrefs)

\* C11: the locator returns null for both ends when no source yields a
\* candidate; otherwise both ends are candidates, lineStart is at most and
\* lineEnd at least every candidate of every source.  Every Suggestion of the
\* container carries these two values, so its ends are both null or both
\* present with lineStart <= lineEnd.
C11_MinMaxOfMergedSet ==
    pc = "done" =>
        /\ LineCandidates(arg) = {} => (ret.lineStart = Null /\ ret.lineEnd = Null)
        /\ LineCandidates(arg) # {} =>
              /\ ret.lineStart \in LineCandidates(arg)
              /\ ret.lineEnd \in LineCandidates(arg)
              /\ \A n \in LineCandidates(arg) :
                    ret.lineStart[1] <= n[1] /\ n[1] <= ret.lineEnd[1]
        /\ \A k \in 1..Len(SuggestionsOfFrame(arg)) :
              LET s == SuggestionsOfFrame(arg)[k]
              IN  /\ s.lineStart = ret.lineStart
                  /\ s.lineEnd = ret.lineEnd
                  /\ (s.lineStart = Null) <=> (s.lineEnd = Null)
                  /\ s.lineStart # Null => s.lineStart[1] <= s.lineEnd[1]

\* A container with candidates from all four sources and a suggestion.
C11_Witness ==
    /\ pc = "done"
    /\ HeaderNums(arg) # {} /\ ParsedNums(arg.dataLineNumbers) # {}
    /\ ParsedNums(arg.blobNums) # {} /\ AnchorNums(arg.hrefs) # {}
    /\ ret.lineStart # Null /\ ret.lineStart[1] < ret.lineEnd[1]
    /\ SuggestionsOfFrame(arg) # <<>>
(***************************************************************************)
(* Inputs of the orchestrator check: pages of at most MaxFrames containers *)
(* holding at most MaxComments comment-root candidates in all, drawn from  *)
(* a palette with a reviewer-authored comment, human comments that repeat  *)
(* its text or mention the reviewer, and a candidate without a body.       *)
(***************************************************************************)
MaxFrames   == 2
MaxComments == 3

CommentPalette ==
    { CommentRoot(<<"C","o","p","i","l","o","t">>, <<"/","a","p","p","s","/","c","o","p","i","l","o","t">>, <<"A","I">>, FALSE, TRUE,
                  <<Li(<<"R","e","n","a","m","e"," ","x">>), Li(<<"U","s","e"," ","y">>)>>),
      CommentRoot(<<"a","l","i","c","e">>, <<"/","a","l","i","c","e">>, <<>>, FALSE, TRUE,
                  <<Li(<<"R","e","n","a","m","e"," ","x">>)>>),
      CommentRoot(<<"b","o","b">>, <<"/","b","o","b">>, <<>>, FALSE, TRUE,
                  <<Para(<<"F","i","x",":"," ","a","s","k"," ","c","o","p","i","l","o","t">>)>>),
      CommentRoot(<<>>, <<>>, <<>>, FALSE, FALSE, <<>>) }

FrameIdPrefix == <<"r","e","v","i","e","w","-","t","h","r","e","a","d","-","o","r","-","c","o","m","m","e","n","t","-","i","d","-">>

\* The page whose f-th container holds the comments cs[k] with place[k] = f.
PageOf(nf, cs, place) ==
    [f \in 1..nf |->
        Frame(FrameIdPrefix \o ToDigits(f), FALSE, <<>>, <<>>, <<>>, <<>>,
              ConcatAll([k \in 1..Len(cs) |-> IF place[k] = f THEN <<cs[k]>> ELSE <<>>]))]

ExtractInit ==
    /\ SysIdle
    /\ pc = "call"
    /\ ret = <<>>
    /\ \E nf \in 0..MaxFrames, cs \in SeqsUpTo(CommentPalette, MaxComments) :
         \E place \in [1..Len(cs) -> 1..nf] :
            /\ \A k \in 1..(Len(cs) - 1) : place[k] <= place[k + 1]
            /\ arg = PageOf(nf, cs, place)

\* One call of extractAllSuggestions.
ExtractCall ==
    /\ pc = "call"
    /\ ret' = extractAllSuggestions(arg)
    /\ pc' = "done"
    /\ UNCHANGED <<arg, sysvars>>

ExtractNext == ExtractCall

ExtractSpec == ExtractInit /\ [][ExtractNext]_vars

CopilotPositions(all) == {k \in 1..Len(all) : all[k].isCopilot}

\* The i-th smallest element of a finite set of integers.
Kth(S, i) == CHOOSE k \in S : Cardinality({j \in S : j <= k}) = i

\* C1: if some candidate is reviewer-authored, the returned list is exactly the
\* reviewer-authored candidates in their original order; if none is, it is the
\* full candidate list; so it is non-empty whenever the candidate list is.
C1_GlobalFilter ==
    pc = "done" =>
        LET all == Candidates(arg)
            cop == CopilotPositions(all)
        IN  /\ cop # {} =>
                  /\ Len(ret) = Cardinality(cop)
                  /\ \A i \in 1..Len(ret) : ret[i] = all[Kth(cop, i)]
            /\ cop = {} => ret = all
            /\ all # <<>> => ret # <<>>

\* A page on which the filter dropped some candidates and kept several.
C1_Witness ==
    /\ pc = "done"
    /\ Len(ret) >= 2
    /\ Len(ret) < Len(Candidates(arg))

\* A page with candidates none of which is reviewer-authored.
C1_WitnessNone ==
    /\ pc = "done"
    /\ Len(ret) >= 2
    /\ CopilotPositions(Candidates(arg)) = {}

\* C9: within one extraction pass no two returned Suggestions have the same id.
C9_UniqueIds ==
    pc = "done" => \A i, j \in 1..Len(ret) : i # j => ret[i].id # ret[j].id

\* A pass over several containers, one of them with several comments, whose
\* result holds the same text at the same item index of two comments.
C9_Witness ==
    /\ pc = "done"
    /\ Len(arg) >= 2
    /\ \E f \in 1..Len(arg) : Len(findCommentRootsInTurboFrame(arg[f])) >= 2
    /\ \E i, j \in 1..Len(ret) : i # j /\ ret[i].text = ret[j].text


(***************************************************************************)
(* The content script as a whole: the tab's address and page tree, the     *)
(* origin's localStorage, the in-memory selection sets, and the timers of  *)
(* the two debounced callbacks.                                            *)
(***************************************************************************)

\* isPRPage: /^\/[^/]+\/[^/]+\/pull\/\d+(?:\/.*)?$/ on location.pathname.
isPRPage(pathname) ==
    LET parts == SplitOn(pathname, "/")
    IN  /\ Len(parts) >= 5
        /\ parts[1] = <<>>
        /\ parts[2] # <<>>
        /\ parts[3] # <<>>
        /\ parts[4] = <<"p","u","l","l">>
        /\ parts[5] # <<>>
        /\ \A k \in 1..Len(parts[5]) : IsDigit(parts[5][k])

Origin == <<"h","t","t","p","s",":","/","/","g","i","t","h","u","b",".","c","o","m">>

currentPRKey(pathname) == <<"c","o","p","i","l","o","t","-","r","e","v","i","e","w","-","t","o","-","p","r","o","m","p","t",":">> \o Origin \o pathname

DeselectedKey(pathname) == currentPRKey(pathname) \o <<":","d","e","s","e","l","e","c","t","e","d">>
IgnoredKey(pathname)    == currentPRKey(pathname) \o <<":","i","g","n","o","r","e","d">>

\* Set.prototype.has / add / delete on a Set kept in insertion order.
SetHas(set, id) == \E k \in 1..Len(set) : set[k] = id

SetAdd(set, id) == IF SetHas(set, id) THEN set ELSE Append(set, id)

RECURSIVE SetDelete(_, _)
SetDelete(set, id) ==
    IF set = <<>> THEN <<>>
    ELSE IF Head(set) = id THEN Tail(set)
    ELSE <<Head(set)>> \o SetDelete(Tail(set), id)

\* new Set(arr): the elements of arr, each at its first position.
RECURSIVE NewSet(_)
NewSet(arr) ==
    IF arr = <<>> THEN <<>>
    ELSE LET init == NewSet(SubSeq(arr, 1, Len(arr) - 1))
         IN  SetAdd(init, arr[Len(arr)])

\* JSON.stringify of a string: quotes and backslashes are escaped.
RECURSIVE JSONQuoteFrom(_)
JSONQuoteFrom(s) ==
    IF s = <<>> THEN <<>>
    ELSE (IF Head(s) = "\"" \/ Head(s) = "\\" THEN <<"\\", Head(s)>> ELSE <<Head(s)>>)
         \o JSONQuoteFrom(Tail(s))

JSONQuote(s) == <<"\"">> \o JSONQuoteFrom(s) \o <<"\"">>

RECURSIVE JSONQuoteAll(_)
JSONQuoteAll(arr) ==
    IF arr = <<>> THEN <<>> ELSE <<JSONQuote(Head(arr))>> \o JSONQuoteAll(Tail(arr))

\* JSON.stringify(set) without Array.from: a Set serialises as an empty object.
JSONStringify_OfSet(arr) == <<"{", "}">>

\* JSON.stringify(Array.from(set)) for a set of strings.
JSONStringify(arr) == <<"[">> \o Join(JSONQuoteAll(arr), <<",">>) \o <<"]">>

\* Reads a JSON string whose opening quote is at p - 1: the string and the
\* position after its closing quote, or next = 0 if it does not end.
RECURSIVE JSONReadString(_, _, _)
JSONReadString(raw, p, acc) ==
    IF p > Len(raw) THEN [str |-> acc, next |-> 0]
    ELSE IF raw[p] = "\"" THEN [str |-> acc, next |-> p + 1]
    ELSE IF raw[p] = "\\"
         THEN IF p + 1 > Len(raw) THEN [str |-> acc, next |-> 0]
              ELSE JSONReadString(raw, p + 2, Append(acc, raw[p + 1]))
    ELSE JSONReadString(raw, p + 1, Append(acc, raw[p]))

\* Reads the elements of an array of strings from p (just after "[" or ",").
RECURSIVE JSONReadItems(_, _, _)
JSONReadItems(raw, p, acc) ==
    IF p > Len(raw) \/ raw[p] # "\"" THEN [ok |-> FALSE, items |-> <<>>]
    ELSE LET r == JSONReadString(raw, p + 1, <<>>)
         IN  IF r.next = 0 \/ r.next > Len(raw) THEN [ok |-> FALSE, items |-> <<>>]
             ELSE IF raw[r.next] = "]"
                  THEN [ok |-> r.next = Len(raw), items |-> Append(acc, r.str)]
             ELSE IF raw[r.next] = ","
                  THEN JSONReadItems(raw, r.next + 1, Append(acc, r.str))
             ELSE [ok |-> FALSE, items |-> <<>>]

\* JSON.parse without the Array.isArray test: new Set of a string holds its
\* characters.
JSONParseArray_NoIsArray(raw) ==
    IF raw = <<"[", "]">> THEN <<>>
    ELSE IF Len(raw) >= 2 /\ raw[1] = "["
         THEN LET r == JSONReadItems(raw, 2, <<>>)
              IN  IF r.ok THEN r.items ELSE <<>>
    ELSE IF Len(raw) >= 2 /\ raw[1] = "\""
         THEN LET r == JSONReadString(raw, 2, <<>>)
              IN  IF r.next = Len(raw) + 1 THEN [k \in 1..Len(r.str) |-> <<r.str[k]>>] ELSE <<>>
    ELSE <<>>

\* JSON.parse followed by Array.isArray(arr) ? arr : [], for the texts the
\* store can hold: an array of strings, or anything else (not an array, or
\* a SyntaxError caught by the caller), which yields no elements.
JSONParseArray(raw) ==
    IF raw = <<"[", "]">> THEN <<>>
    ELSE IF Len(raw) >= 2 /\ raw[1] = "["
         THEN LET r == JSONReadItems(raw, 2, <<>>)
              IN  IF r.ok THEN r.items ELSE <<>>
    ELSE <<>>

\* localStorage.getItem: null is written <<>> (the empty string is falsy too).
getItem(store, key) == IF key \in DOMAIN store THEN store[key] ELSE <<>>

\* localStorage.setItem.
setItem(store, key, value) ==
    [k \in (DOMAIN store) \cup {key} |-> IF k = key THEN value ELSE store[k]]

\* A localStorage whose every access throws (site data is blocked) is written
\* as the store that holds the one key SecurityError.
StorageDenied == [k \in {<<"SecurityError">>} |-> <<>>]

Throws(store) == <<"SecurityError">> \in DOMAIN store

\* storage.getDeselectedSet / storage.getIgnoredSet at the given address: the
\* catch clause answers a throwing store and a SyntaxError of JSON.parse.
LoadSet(store, key) ==
    IF Throws(store) THEN <<>>
    ELSE LET raw == getItem(store, key)
         IN  IF raw = <<>> THEN <<>> ELSE NewSet(JSONParseArray(raw))

getDeselectedSet(store, pathname) == LoadSet(store, DeselectedKey(pathname))
getIgnoredSet(store, pathname)    == LoadSet(store, IgnoredKey(pathname))

\* storage.saveDeselectedSet / storage.saveIgnoredSet at the given address;
\* setItem throws when the quota is exceeded and the error is swallowed.
SaveSet(store, key, set, stored) ==
    IF stored /\ ~Throws(store) THEN setItem(store, key, JSONStringify(set)) ELSE store

saveDeselectedSet(store, pathname, set, stored) ==
    SaveSet(store, DeselectedKey(pathname), set, stored)
saveIgnoredSet(store, pathname, set, stored) ==
    SaveSet(store, IgnoredKey(pathname), set, stored)

(***************************************************************************)
(* The pages of the tab.  Two pull-request pages and a page that is not    *)
(* one; the first pull request's threads load in stages: a human comment,  *)
(* then a thread with a reviewer-authored comment of two items.            *)
(***************************************************************************)
Quantum == 75    \* the step of the clock, in ms
MaxBurst == 3    \* state.refresh() calls counted since the last run
MaxEvents == 3   \* user, page and network events in one behaviour

RefreshDelay  == 150
ObserverDelay == 300

PullOne   == <<"/","o","/","r","/","p","u","l","l","/","1">>
PullTwo   == <<"/","o","/","r","/","p","u","l","l","/","2">>
IssueList == <<"/","o","/","r","/","i","s","s","u","e","s">>

Pathnames == {PullOne, PullTwo, IssueList}

ThreadOf(n, comments) ==
    Frame(FrameIdPrefix \o ToDigits(n), FALSE, <<>>, <<>>, <<>>, <<>>, comments)

HumanThread ==
    ThreadOf(1, <<CommentRoot(<<"a","l","i","c","e">>, <<"/","a","l","i","c","e">>, <<>>, FALSE, TRUE, <<Li(<<"R","e","n","a","m","e"," ","x">>)>>)>>)
ReviewerThread ==
    ThreadOf(2, <<CommentRoot(<<"C","o","p","i","l","o","t">>, <<"/","a","p","p","s","/","c","o","p","i","l","o","t">>, <<"A","I">>, FALSE, TRUE, <<Li(<<"U","s","e"," ","y">>), Li(<<"A","d","d"," ","a"," ","g","u","a","r","d">>)>>)>>)
OtherThread ==
    ThreadOf(3, <<CommentRoot(<<"b","o","b">>, <<"/","b","o","b">>, <<>>, FALSE, TRUE, <<Li(<<"A","d","d"," ","a"," ","t","e","s","t">>)>>)>>)

\* The stages in which the threads of a page appear in its tree.
Stages(pathname) ==
    IF pathname = PullOne THEN << <<HumanThread>>, <<HumanThread, ReviewerThread>> >>
    ELSE IF pathname = PullTwo THEN << <<OtherThread>> >>
    ELSE << <<>> >>

StageTrees(pathname) == {Stages(pathname)[k] : k \in 1..Len(Stages(pathname))}

\* debounce without clearTimeout(t): the earlier timeouts stay pending.
debounce_NoClear(timers, args, delay) == timers \cup {[left |-> delay, args |-> args]}

\* debounce(fn, delay): each call clears the pending timeout and sets a new
\* one that will call fn with the arguments of this call.
debounce(timers, args, delay) == {[left |-> delay, args |-> args]}

\* state.refresh(): the debounced extraction is requested.
RequestRefresh ==
    /\ refreshTimers' = debounce(refreshTimers, <<>>, RefreshDelay)
    /\ burst' = IF burst < MaxBurst THEN burst + 1 ELSE burst
    /\ sinceRequest' = 0

NoRequest == UNCHANGED <<refreshTimers, burst, sinceRequest>>

\* A timeout has expired.  Its callback is taken to be the next task that
\* runs: no other event is handled, and no time passes, between the expiry
\* and the callback.
Due == (\E t \in refreshTimers : t.left = 0) \/ (\E t \in observerTimers : t.left = 0)

\* The script handles one more event of the user, the page or the network;
\* a behaviour has at most MaxEvents of them, and any number of clock steps
\* and timeout callbacks.  A clipboard write settles before the next event
\* is handled and before more time passes.
Handled == ~Due /\ writing = <<>> /\ events < MaxEvents /\ events' = events + 1

\* An event that is not a runtime message: nothing is replied.
Event == Handled /\ response' = <<>>

\* The items of the panel's list: state.suggestions.filter(s => !ignored.has(s.id)).
RECURSIVE Visible(_, _)
Visible(list, ign) ==
    IF list = <<>> THEN <<>>
    ELSE (IF SetHas(ign, Head(list).id) THEN <<>> ELSE <<Head(list)>>)
         \o Visible(Tail(list), ign)

RECURSIVE Ids(_)
Ids(list) == IF list = <<>> THEN <<>> ELSE <<Head(list).id>> \o Ids(Tail(list))

\* The script starts on a freshly loaded pull-request page: the UI reads the
\* two sets from localStorage, state.suggestions is empty, and state.refresh()
\* is called once.
Start(pathname, tree, store) ==
    /\ isPRPage(pathname)
    /\ location = pathname
    /\ doc = tree
    /\ localStorage = store
    /\ suggestions = <<>>
    /\ deselected = getDeselectedSet(store, pathname)
    /\ ignored = getIgnoredSet(store, pathname)
    /\ statusMsg = <<>>
    /\ refreshTimers = debounce({}, <<>>, RefreshDelay)
    /\ observerTimers = {}
    /\ snapshot = [taken |-> FALSE, tree |-> <<>>]
    /\ lastRun = [kind |-> "none", served |-> 0]
    /\ burst = 1
    /\ sinceRequest = 0
    /\ owed = FALSE

Init ==
    /\ pc = "idle" /\ arg = <<>> /\ ret = <<>>
    /\ events = 0
    /\ response = <<>>
    /\ writing = <<>>
    /\ deselectedAt = {} /\ ignoredAt = {}
    /\ \E pathname \in Pathnames : \E tree \in StageTrees(pathname) :
          Start(pathname, tree, <<>>)

Range(seq) == {seq[k] : k \in 1..Len(seq)}

RECURSIVE SetAddAll(_, _)
SetAddAll(set, ids) ==
    IF ids = <<>> THEN set ELSE SetAddAll(SetAdd(set, Head(ids)), Tail(ids))

RECURSIVE SetDeleteAll(_, _)
SetDeleteAll(set, ids) ==
    IF ids = <<>> THEN set ELSE SetDeleteAll(SetDelete(set, Head(ids)), Tail(ids))

Script == <<suggestions, snapshot, lastRun>>
Tab    == <<location, doc>>
Timers == <<refreshTimers, observerTimers, burst, sinceRequest, owed>>

\* The change handler of the checkbox of item id (the box shows !deselected.has(id)):
\* the id leaves or enters the set, which is then saved.
CheckboxChange(id, stored) ==
    /\ Event
    /\ id \in Range(Ids(Visible(suggestions, ignored)))
    /\ deselected' = IF SetHas(deselected, id) THEN SetDelete(deselected, id)
                     ELSE SetAdd(deselected, id)
    /\ localStorage' = saveDeselectedSet(localStorage, location, deselected', stored)
    /\ deselectedAt' = IF SetHas(deselected, id) THEN deselectedAt
                       ELSE deselectedAt \cup {<<location, id>>}
    /\ UNCHANGED <<arg, ret, pc, writing, statusMsg, Script, Tab, Timers, ignored, ignoredAt>>

\* A Select All/None that only ever selects.
onSelectAll_NeverDeselects(stored) ==
    LET allIds == Ids(Visible(suggestions, ignored))
    IN  /\ Event
        /\ deselected' = SetDeleteAll(deselected, allIds)
        /\ localStorage' = saveDeselectedSet(localStorage, location, deselected', stored)
        /\ UNCHANGED <<arg, ret, pc, writing, statusMsg, Script, Tab, Timers, ignored, ignoredAt,
                       deselectedAt>>

\* onSelectAll: the visible ids all enter the set if none was in it, all
\* leave it otherwise.
onSelectAll(stored) ==
    LET allIds      == Ids(Visible(suggestions, ignored))
        allSelected == \A k \in 1..Len(allIds) : ~SetHas(deselected, allIds[k])
    IN  /\ Event
        /\ deselected' = IF allSelected THEN SetAddAll(deselected, allIds)
                         ELSE SetDeleteAll(deselected, allIds)
        /\ localStorage' = saveDeselectedSet(localStorage, location, deselected', stored)
        /\ deselectedAt' = IF allSelected
                           THEN deselectedAt \cup {<<location, id>> : id \in Range(allIds)}
                           ELSE deselectedAt
        /\ UNCHANGED <<arg, ret, pc, writing, statusMsg, Script, Tab, Timers, ignored, ignoredAt>>

\* A Skip that also takes the item out of state.suggestions.
Skip_DropsSuggestion(id, stored) ==
    /\ Event
    /\ id \in Range(Ids(Visible(suggestions, ignored)))
    /\ ignored' = SetAdd(ignored, id)
    /\ localStorage' = saveIgnoredSet(localStorage, location, ignored', stored)
    /\ ignoredAt' = ignoredAt \cup {<<location, id>>}
    /\ suggestions' = Visible(suggestions, ignored')
    /\ UNCHANGED <<arg, ret, pc, writing, statusMsg, snapshot, lastRun, Tab, Timers, deselected,
                   deselectedAt>>

\* The click handler of the Skip button of item id.
Skip(id, stored) ==
    /\ Event
    /\ id \in Range(Ids(Visible(suggestions, ignored)))
    /\ ignored' = SetAdd(ignored, id)
    /\ localStorage' = saveIgnoredSet(localStorage, location, ignored', stored)
    /\ ignoredAt' = ignoredAt \cup {<<location, id>>}
    /\ UNCHANGED <<arg, ret, pc, writing, statusMsg, Script, Tab, Timers, deselected, deselectedAt>>

Selection == <<localStorage, deselected, ignored, deselectedAt, ignoredAt>>

\* The status texts of the Refresh button and of an extraction run; the
\* horizontal ellipsis is written as one character.
Refreshing == <<"R","e","f","r","e","s","h","i","n","g","ELLIPSIS">>

FoundStatus(n) ==
    <<"F","o","u","n","d"," ">> \o ToDigits(n) \o <<" ","s","u","g","g","e","s","t","i","o","n","(","s",")">>

\* The Refresh button of the panel.
RefreshClick ==
    /\ Event
    /\ statusMsg' = Refreshing
    /\ RequestRefresh
    /\ UNCHANGED <<arg, ret, pc, writing, Script, Tab, Selection, observerTimers, owed>>

\* The CRTP_REFRESH message of the popup or the background worker.
RefreshMessage ==
    /\ Handled
    /\ RequestRefresh
    /\ response' = <<[ok |-> TRUE]>>
    /\ UNCHANGED <<arg, ret, pc, writing, statusMsg, Script, Tab, Selection, observerTimers, owed>>

\* An in-session navigation: the address and the tree are those of the new page.
Arrive(pathname) ==
    /\ Event
    /\ location' = pathname
    /\ doc' \in StageTrees(pathname)
    /\ UNCHANGED <<arg, ret, pc, writing, statusMsg, Script, Selection, observerTimers, owed>>

TurboLoad(pathname) == Arrive(pathname) /\ RequestRefresh

PjaxEnd(pathname) == Arrive(pathname) /\ RequestRefresh

PopState(pathname) ==
    /\ Arrive(pathname)
    /\ IF isPRPage(pathname) THEN RequestRefresh ELSE NoRequest

\* The observer is handed a batch of mutation records: the debounced callback
\* is rescheduled with this batch as its argument.  A relevant batch is one
\* in which an added node is or contains a thread container or a comment.
ThreadInserted ==
    /\ Event
    /\ \E k \in 1..(Len(Stages(location)) - 1) :
          /\ doc = Stages(location)[k]
          /\ doc' = Stages(location)[k + 1]
    /\ observerTimers' = debounce(observerTimers, <<TRUE>>, ObserverDelay)
    /\ owed' = TRUE
    /\ UNCHANGED <<arg, ret, pc, writing, statusMsg, Script, location, Selection, refreshTimers, burst, sinceRequest>>

OtherMutation ==
    /\ Event
    /\ observerTimers' = debounce(observerTimers, <<FALSE>>, ObserverDelay)
    /\ UNCHANGED <<arg, ret, pc, writing, statusMsg, Script, Tab, Selection, refreshTimers, burst, sinceRequest, owed>>

\* The observer's timeout expires: if (relevant) state.refresh().
ObserverFire ==
    \E t \in observerTimers :
        /\ t.left = 0
        /\ observerTimers' = observerTimers \ {t}
        /\ response' = <<>>
        /\ IF t.args[1] THEN RequestRefresh ELSE NoRequest
        /\ UNCHANGED <<arg, ret, pc, writing, statusMsg, Script, Tab, Selection, owed, events>>

\* A run that appends its result to state.suggestions instead of replacing it.
RefreshFire_Appends ==
    \E t \in refreshTimers :
        /\ t.left = 0
        /\ refreshTimers' = refreshTimers \ {t}
        /\ response' = <<>>
        /\ suggestions' = suggestions \o extractAllSuggestions(doc)
        /\ statusMsg' = FoundStatus(Len(extractAllSuggestions(doc)))
        /\ snapshot' = [taken |-> TRUE, tree |-> doc]
        /\ lastRun' = [kind   |-> IF snapshot.taken /\ snapshot.tree = doc
                                  THEN "rerun" ELSE "fresh",
                       served |-> burst]
        /\ burst' = 0
        /\ owed' = FALSE
        /\ UNCHANGED <<arg, ret, pc, writing, Tab, Selection, observerTimers, sinceRequest, events>>

\* A run that starts from an empty deselected set.
RefreshFire_ForgetsDeselected ==
    \E t \in refreshTimers :
        /\ t.left = 0
        /\ refreshTimers' = refreshTimers \ {t}
        /\ response' = <<>>
        /\ suggestions' = extractAllSuggestions(doc)
        /\ statusMsg' = FoundStatus(Len(suggestions'))
        /\ snapshot' = [taken |-> TRUE, tree |-> doc]
        /\ lastRun' = [kind   |-> IF snapshot.taken /\ snapshot.tree = doc
                                  THEN "rerun" ELSE "fresh",
                       served |-> burst]
        /\ burst' = 0
        /\ owed' = FALSE
        /\ deselected' = <<>>
        /\ UNCHANGED <<arg, ret, pc, writing, Tab, localStorage, ignored, deselectedAt, ignoredAt,
                       observerTimers, sinceRequest, events>>

\* The timeout of state.refresh expires: the extraction runs over the tree
\* and its result replaces state.suggestions.
RefreshFire ==
    \E t \in refreshTimers :
        /\ t.left = 0
        /\ refreshTimers' = refreshTimers \ {t}
        /\ response' = <<>>
        /\ suggestions' = extractAllSuggestions(doc)
        /\ statusMsg' = FoundStatus(Len(suggestions'))
        /\ snapshot' = [taken |-> TRUE, tree |-> doc]
        /\ lastRun' = [kind   |-> IF snapshot.taken /\ snapshot.tree = doc
                                  THEN "rerun" ELSE "fresh",
                       served |-> burst]
        /\ burst' = 0
        /\ owed' = FALSE
        /\ UNCHANGED <<arg, ret, pc, writing, Tab, Selection, observerTimers, sinceRequest, events>>

Elapse(t) == [t EXCEPT !.left = IF t.left > Quantum THEN t.left - Quantum ELSE 0]

\* Time passes; an expired timeout runs before more time passes.
Tick ==
    /\ ~Due
    /\ writing = <<>>
    /\ response' = <<>>
    /\ refreshTimers' = {Elapse(t) : t \in refreshTimers}
    /\ observerTimers' = {Elapse(t) : t \in observerTimers}
    /\ sinceRequest' = IF sinceRequest + Quantum < RefreshDelay
                       THEN sinceRequest + Quantum ELSE RefreshDelay
    /\ UNCHANGED <<arg, ret, pc, writing, statusMsg, Script, Tab, Selection, burst, owed, events>>

\* The tab loads a pull-request page anew: the script starts again, with the
\* localStorage the origin has by then.
ScriptStarts(pathname) ==
    /\ isPRPage(pathname)
    /\ location' = pathname
    /\ doc' \in StageTrees(pathname)
    /\ suggestions' = <<>>
    /\ deselected' = getDeselectedSet(localStorage, pathname)
    /\ ignored' = getIgnoredSet(localStorage, pathname)
    /\ statusMsg' = <<>>
    /\ refreshTimers' = debounce({}, <<>>, RefreshDelay)
    /\ observerTimers' = {}
    /\ snapshot' = [taken |-> FALSE, tree |-> <<>>]
    /\ lastRun' = [kind |-> "none", served |-> 0]
    /\ burst' = 1
    /\ sinceRequest' = 0
    /\ owed' = FALSE
    /\ writing' = <<>>

PageLoad(pathname) ==
    /\ Event
    /\ ScriptStarts(pathname)
    /\ UNCHANGED <<arg, ret, pc, localStorage, deselectedAt, ignoredAt>>

\* state.suggestions.filter(s => !UI.deselected.has(s.id)).map(s => s.id)
RECURSIVE SelectedIds(_, _)
SelectedIds(list, des) ==
    IF list = <<>> THEN <<>>
    ELSE (IF SetHas(des, Head(list).id) THEN <<>> ELSE <<Head(list).id>>)
         \o SelectedIds(Tail(list), des)

\* A handler that replies with the whole list, the ignored ids included.
Query_KeepsIgnored ==
    /\ Handled
    /\ LET list        == suggestions
           selectedIds == SelectedIds(list, deselected)
       IN  response' = << [isPR        |-> isPRPage(location),
                           hasCRTP     |-> TRUE,
                           found       |-> Len(list),
                           selected    |-> Len(selectedIds),
                           suggestions |-> list,
                           selectedIds |-> selectedIds] >>
    /\ UNCHANGED <<arg, ret, pc, writing, statusMsg, Script, Tab, Selection, Timers>>

\* The CRTP_QUERY message handler.
Query ==
    /\ Handled
    /\ LET list        == Visible(suggestions, ignored)
           selectedIds == SelectedIds(list, deselected)
       IN  response' = << [isPR        |-> isPRPage(location),
                           hasCRTP     |-> TRUE,
                           found       |-> Len(list),
                           selected    |-> Len(selectedIds),
                           suggestions |-> list,
                           selectedIds |-> selectedIds] >>
    /\ UNCHANGED <<arg, ret, pc, writing, statusMsg, Script, Tab, Selection, Timers>>


(***************************************************************************)
(* The copy buttons of the panel                                           *)
(***************************************************************************)
\* A filter that leaves the deselected suggestions in.
RECURSIVE Selected_IgnoredOnly(_, _, _)
Selected_IgnoredOnly(list, ign, des) ==
    IF list = <<>> THEN <<>>
    ELSE (IF SetHas(ign, Head(list).id) THEN <<>> ELSE <<Head(list)>>)
         \o Selected_IgnoredOnly(Tail(list), ign, des)

\* state.suggestions.filter(s => !ignored.has(s.id) && !deselected.has(s.id))
RECURSIVE Selected(_, _, _)
Selected(list, ign, des) ==
    IF list = <<>> THEN <<>>
    ELSE (IF ~SetHas(ign, Head(list).id) /\ ~SetHas(des, Head(list).id)
          THEN <<Head(list)>> ELSE <<>>)
         \o Selected(Tail(list), ign, des)

Formats == {"prompt", "markdown", "json"}

NoneSelectedStatus == <<"N","o"," ","s","u","g","g","e","s","t","i","o","n","s"," ","s","e","l","e","c","t","e","d"," ","t","o"," ","c","o","p","y">>

CopiedStatus(format, n) ==
    CASE format = "prompt"   -> <<"C","o","p","i","e","d"," ">> \o ToDigits(n) \o <<" ","s","u","g","g","e","s","t","i","o","n","(","s",")"," ","t","o"," ","c","l","i","p","b","o","a","r","d">>
      [] format = "markdown" -> <<"C","o","p","i","e","d"," ","M","D"," ","f","o","r"," ">> \o ToDigits(n) \o <<" ","s","u","g","g","e","s","t","i","o","n","(","s",")">>
      [] format = "json"     -> <<"C","o","p","i","e","d"," ","J","S","O","N"," ","f","o","r"," ">> \o ToDigits(n) \o <<" ","s","u","g","g","e","s","t","i","o","n","(","s",")">>

CopyFailedPrefix == <<"C","o","p","y"," ","f","a","i","l","e","d",":"," ">>

\* "Copy failed: " + (e?.message || "unknown error")
CopyFailedStatus(message) ==
    CopyFailedPrefix \o (IF message = <<>> THEN <<"u","n","k","n","o","w","n"," ","e","r","r","o","r">> ELSE message)

\* The messages of the errors a rejected write carries: none, or the text of
\* the browser's NotAllowedError.
RejectMessages == {<<>>, <<"W","r","i","t","e"," ","p","e","r","m","i","s","s","i","o","n"," ","d","e","n","i","e","d",".">>}

\* The click handler of a copy button, up to its await.  The text handed to
\* writeText is the builder's output for the selected items and the address
\* of the tab; the call is recorded by the builder and its arguments.
CopyClick(format) ==
    LET selected == Selected(suggestions, ignored, deselected)
    IN  /\ Event
        /\ IF Len(selected) = 0
           THEN /\ statusMsg' = NoneSelectedStatus
                /\ writing' = writing
           ELSE /\ writing' = Append(writing, [format |-> format, items |-> selected, href |-> location])
                /\ statusMsg' = statusMsg
        /\ UNCHANGED <<arg, ret, pc, Script, Tab, Selection, Timers>>

onCopy == CopyClick("prompt")

copyMd == CopyClick("markdown")

copyJson == CopyClick("json")

RemoveAt(seq, k) == SubSeq(seq, 1, k - 1) \o SubSeq(seq, k + 1, Len(seq))

\* The k-th pending write resolves: the handler continues after its await.
WriteResolved(k) ==
    /\ ~Due
    /\ k \in 1..Len(writing)
    /\ statusMsg' = CopiedStatus(writing[k].format, Len(writing[k].items))
    /\ writing' = RemoveAt(writing, k)
    /\ response' = <<>>
    /\ UNCHANGED <<arg, ret, pc, Script, Tab, Selection, Timers, events>>

\* A catch clause that issues the write once more.
WriteRejected_Retries(k, message) ==
    /\ ~Due
    /\ k \in 1..Len(writing)
    /\ statusMsg' = CopyFailedStatus(message)
    /\ writing' = Append(RemoveAt(writing, k), writing[k])
    /\ response' = <<>>
    /\ UNCHANGED <<arg, ret, pc, Script, Tab, Selection, Timers, events>>

\* The k-th pending write rejects: the handler continues in its catch clause.
WriteRejected(k, message) ==
    /\ ~Due
    /\ k \in 1..Len(writing)
    /\ statusMsg' = CopyFailedStatus(message)
    /\ writing' = RemoveAt(writing, k)
    /\ response' = <<>>
    /\ UNCHANGED <<arg, ret, pc, Script, Tab, Selection, Timers, events>>

Next ==
    \/ \E id \in Range(Ids(suggestions)), stored \in BOOLEAN : CheckboxChange(id, stored)
    \/ \E stored \in BOOLEAN : onSelectAll(stored)
    \/ \E id \in Range(Ids(suggestions)), stored \in BOOLEAN : Skip(id, stored)
    \/ RefreshClick
    \/ RefreshMessage
    \/ Query
    \/ onCopy
    \/ copyMd
    \/ copyJson
    \/ \E k \in 1..Len(writing) : WriteResolved(k)
    \/ \E k \in 1..Len(writing), message \in RejectMessages : WriteRejected(k, message)
    \/ \E pathname \in Pathnames : TurboLoad(pathname)
    \/ \E pathname \in Pathnames : PjaxEnd(pathname)
    \/ \E pathname \in Pathnames : PopState(pathname)
    \/ ThreadInserted
    \/ OtherMutation
    \/ ObserverFire
    \/ RefreshFire
    \/ Tick
    \/ \E pathname \in Pathnames : PageLoad(pathname)

Spec == Init /\ [][Next]_vars

(***************************************************************************)
(* Properties of the content script.                                       *)
(***************************************************************************)

\* C4: when a checkbox change puts an id into the deselected set and the save
\* stores it, loading the deselected set for the same address returns a set
\* that contains the id; likewise for Skip and the ignored set; and loading
\* either set for an address whose key was never written returns the empty set.
C4_PersistenceRoundTrip ==
    [][ /\ \A id \in Range(Ids(suggestions)) :
              (CheckboxChange(id, TRUE) /\ ~SetHas(deselected, id))
                  => SetHas(getDeselectedSet(localStorage', location'), id)
        /\ \A id \in Range(Ids(suggestions)) :
              Skip(id, TRUE) => SetHas(getIgnoredSet(localStorage', location'), id)
        /\ \A pathname \in Pathnames :
              /\ DeselectedKey(pathname) \notin DOMAIN localStorage'
                    => getDeselectedSet(localStorage', pathname) = <<>>
              /\ IgnoredKey(pathname) \notin DOMAIN localStorage'
                    => getIgnoredSet(localStorage', pathname) = <<>> ]_vars

\* On the first pull request an id was deselected and saved and an id was
\* skipped and saved, a load there returns each, and the second pull
\* request's key was never written.
C4_Witness ==
    /\ location = PullOne
    /\ \E id \in Range(deselected) : SetHas(getDeselectedSet(localStorage, PullOne), id)
    /\ \E id \in Range(ignored) : SetHas(getIgnoredSet(localStorage, PullOne), id)
    /\ DeselectedKey(PullTwo) \notin DOMAIN localStorage
    /\ getDeselectedSet(localStorage, PullTwo) = <<>>

\* C5: the set persisted under the key of an address holds only ids that were
\* deselected (respectively ignored) while the tab was at that address.
C5_NeverMergedAcrossIdentities ==
    \A pathname \in Pathnames :
        /\ \A id \in Range(getDeselectedSet(localStorage, pathname)) :
              <<pathname, id>> \in deselectedAt
        /\ \A id \in Range(getIgnoredSet(localStorage, pathname)) :
              <<pathname, id>> \in ignoredAt

\* C6: while requests are unserved exactly one timeout of state.refresh is
\* pending, and it expires one settle window after the last request; with no
\* unserved request none is pending.  So an extraction run starts only when
\* the settle window has passed since the last request, it serves the whole
\* burst, and no second run is left pending for it.
C6_OneRunPerBurst ==
    /\ [](IF burst > 0
          THEN refreshTimers = {[left |-> RefreshDelay - sinceRequest, args |-> <<>>]}
          ELSE refreshTimers = {})
    /\ [][RefreshFire => /\ burst > 0
                         /\ sinceRequest = RefreshDelay
                         /\ refreshTimers' = {}]_vars

\* A run has just served a burst of several requests.
C6_Witness ==
    /\ lastRun.served >= 2
    /\ burst = 0
    /\ refreshTimers = {}

\* C7: once no timeout is pending, every relevant mutation batch that was
\* observed has been followed by an extraction run.
C7_RelevantBatchFollowedByRun ==
    (refreshTimers = {} /\ observerTimers = {}) => ~owed

PositionsOutside(list, set) == {k \in 1..Len(list) : ~SetHas(set, list[k].id)}

IsQueryReply(r) == "found" \in DOMAIN r

\* C12: in a CRTP_QUERY reply, suggestions is state.suggestions without the
\* ignored ids, in order; found is its length; selectedIds is the ids of those
\* of them that are not deselected, in order; selected is its length.  So
\* selected <= found and no ignored id occurs in suggestions or selectedIds.
C12_QueryReply ==
    \A k \in 1..Len(response) :
        IsQueryReply(response[k]) =>
            LET r    == response[k]
                keep == PositionsOutside(suggestions, ignored)
                sel  == PositionsOutside(r.suggestions, deselected)
            IN  /\ Len(r.suggestions) = Cardinality(keep)
                /\ \A i \in 1..Len(r.suggestions) :
                      r.suggestions[i] = suggestions[Kth(keep, i)]
                /\ r.found = Len(r.suggestions)
                /\ Len(r.selectedIds) = Cardinality(sel)
                /\ \A i \in 1..Len(r.selectedIds) :
                      r.selectedIds[i] = r.suggestions[Kth(sel, i)].id
                /\ r.selected = Len(r.selectedIds)
                /\ r.selected <= r.found
                /\ \A i \in 1..Len(r.suggestions) : ~SetHas(ignored, r.suggestions[i].id)
                /\ \A i \in 1..Len(r.selectedIds) : ~SetHas(ignored, r.selectedIds[i])

\* A reply for a list of two suggestions of which one is ignored and the
\* other deselected: it is counted in found and not in selected.
C12_Witness ==
    /\ Len(response) = 1 /\ IsQueryReply(response[1])
    /\ Len(suggestions) = 2
    /\ response[1].found = 1
    /\ response[1].selected = 0

\* The ids shown in the panel's list.
PanelIds == Range(Ids(Visible(suggestions, ignored)))

\* C13: an id that Skip has put into the ignored set, and that is stored under
\* the key of the address where it was skipped, is in no later state shown in
\* the panel's list or held in a CRTP_QUERY reply.
C13_IgnoringIsPermanent ==
    \A mark \in ignoredAt :
        SetHas(getIgnoredSet(localStorage, mark[1]), mark[2]) =>
            /\ mark[2] \notin PanelIds
            /\ \A k \in 1..Len(response) :
                  IsQueryReply(response[k]) =>
                      /\ mark[2] \notin Range(Ids(response[k].suggestions))
                      /\ mark[2] \notin Range(response[k].selectedIds)

\* C14: a click on Copy Prompt, Copy MD or Copy JSON hands to the clipboard
\* the output built, in the clicked format, from the suggestions whose id is
\* in neither the deselected nor the ignored set, in the order of
\* state.suggestions; when there is none, no write is issued and the status
\* line reads "No suggestions selected to copy".
C14_CopyUsesSelection ==
    [][\A format \in Formats :
          CopyClick(format) =>
              LET keep == PositionsOutside(suggestions, ignored)
                             \cap PositionsOutside(suggestions, deselected)
              IN  IF keep = {}
                  THEN writing' = writing /\ statusMsg' = NoneSelectedStatus
                  ELSE /\ Len(writing') = Len(writing) + 1
                       /\ SubSeq(writing', 1, Len(writing)) = writing
                       /\ writing'[Len(writing')].format = format
                       /\ writing'[Len(writing')].href = location
                       /\ Len(writing'[Len(writing')].items) = Cardinality(keep)
                       /\ \A i \in 1..Cardinality(keep) :
                             writing'[Len(writing')].items[i] = suggestions[Kth(keep, i)]]_vars

\* A write is pending for one of two suggestions; the other is deselected or
\* ignored.
C14_Witness ==
    /\ Len(writing) = 1
    /\ Len(suggestions) = 2
    /\ Len(writing[1].items) = 1
    /\ Len(deselected) + Len(ignored) = 1
    /\ writing[1].items[1].id \notin Range(deselected) \cup Range(ignored)

\* A click found nothing selected although suggestions are listed.
C14_WitnessNone ==
    /\ statusMsg = NoneSelectedStatus
    /\ suggestions # <<>>
    /\ writing = <<>>

\* C16: when a clipboard write of the panel rejects, the status line is set to
\* a text that begins with "Copy failed: ", the rejected write is dropped and
\* no write is issued in its place, and state.suggestions, the deselected and
\* ignored sets and their stored copies are left as they were.
C16_ClipboardFailureNotFatal ==
    [][\A k \in 1..Len(writing), message \in RejectMessages :
          WriteRejected(k, message) =>
              /\ StartsWithAt(statusMsg', 1, CopyFailedPrefix)
              /\ Len(statusMsg') > Len(CopyFailedPrefix)
              /\ writing' = RemoveAt(writing, k)
              /\ UNCHANGED <<suggestions, deselected, ignored, localStorage>>]_vars

\* A write has been rejected with an error that carries no message: the status
\* says so, nothing is pending, and the list and a non-empty set are in place.
C16_Witness ==
    /\ statusMsg = CopyFailedStatus(<<>>)
    /\ writing = <<>>
    /\ suggestions # <<>>
    /\ deselected # <<>>

(***************************************************************************)
(* The script on a page whose stored sets cannot be read                   *)
(***************************************************************************)
\* Texts found under a key that JSON.parse rejects (the first two) or parses
\* to something that is not an array: an object, a string, null.
ForeignTexts == {<<"{","o","o","p","s">>, <<"[","\"","a","\"">>, <<"{","}">>, <<"\"","a","b","\"">>, <<"n","u","l","l">>}

StoreWith(raw) == [k \in {DeselectedKey(PullOne), IgnoredKey(PullOne)} |-> raw]

StoreInputs == {StorageDenied} \cup {StoreWith(raw) : raw \in ForeignTexts}

\* The script starts on /o/r/pull/1, whose tree holds the reviewer's thread,
\* with a localStorage that throws or holds foreign text under both keys.
StoreInit ==
    /\ pc = "idle" /\ arg = <<>> /\ ret = <<>>
    /\ events = 0
    /\ response = <<>>
    /\ writing = <<>>
    /\ deselectedAt = {} /\ ignoredAt = {}
    /\ \E store \in StoreInputs : Start(PullOne, Stages(PullOne)[2], store)

StoreNext ==
    \/ \E id \in Range(Ids(suggestions)), stored \in BOOLEAN : CheckboxChange(id, stored)
    \/ \E stored \in BOOLEAN : onSelectAll(stored)
    \/ \E id \in Range(Ids(suggestions)), stored \in BOOLEAN : Skip(id, stored)
    \/ onCopy
    \/ \E k \in 1..Len(writing) : WriteResolved(k)
    \/ \E k \in 1..Len(writing), message \in RejectMessages : WriteRejected(k, message)
    \/ RefreshFire
    \/ Tick
    \/ PageLoad(PullOne)

StoreSpec == StoreInit /\ [][StoreNext]_vars

\* The load under the key cannot succeed.
LoadFails(store, key) == Throws(store) \/ getItem(store, key) \in ForeignTexts

\* The save of this step cannot succeed.
SaveFails(stored) == ~stored \/ Throws(localStorage)

\* C15: a script that starts over a store that throws, or that holds
\* unparsable or non-array text under a key, starts with the empty set for
\* that key; a toggle, Select All or Skip whose save fails changes the set in
\* memory as it would otherwise, leaves the store and state.suggestions as they
\* were, and a later Copy Prompt click builds from the sets in memory.
C15_PersistenceFailuresContained ==
    /\ LoadFails(localStorage, DeselectedKey(location)) => deselected = <<>>
    /\ LoadFails(localStorage, IgnoredKey(location)) => ignored = <<>>
    /\ [][/\ PageLoad(PullOne) =>
                /\ LoadFails(localStorage, DeselectedKey(PullOne)) => deselected' = <<>>
                /\ LoadFails(localStorage, IgnoredKey(PullOne)) => ignored' = <<>>
          /\ \A id \in Range(Ids(suggestions)), stored \in BOOLEAN :
                /\ (CheckboxChange(id, stored) /\ SaveFails(stored)) =>
                      /\ localStorage' = localStorage
                      /\ SetHas(deselected', id) = ~SetHas(deselected, id)
                      /\ UNCHANGED <<suggestions, ignored>>
                /\ (Skip(id, stored) /\ SaveFails(stored)) =>
                      /\ localStorage' = localStorage
                      /\ SetHas(ignored', id)
                      /\ UNCHANGED <<suggestions, deselected>>
          /\ \A stored \in BOOLEAN :
                (onSelectAll(stored) /\ SaveFails(stored)) =>
                      /\ localStorage' = localStorage
                      /\ UNCHANGED <<suggestions, ignored>>
          /\ onCopy =>
                LET keep == PositionsOutside(suggestions, ignored)
                               \cap PositionsOutside(suggestions, deselected)
                IN  IF keep = {} THEN writing' = writing
                    ELSE /\ Len(writing') = Len(writing) + 1
                         /\ Ids(writing'[Len(writing')].items)
                               = [i \in 1..Cardinality(keep) |-> suggestions[Kth(keep, i)].id]]_vars

\* Over a store that still holds the foreign text, one suggestion was
\* deselected (the save failed) and Copy Prompt has issued a write for the
\* other one.
C15_Witness ==
    /\ getItem(localStorage, DeselectedKey(location)) \in ForeignTexts
    /\ Len(deselected) = 1
    /\ Len(suggestions) = 2
    /\ Len(writing) = 1
    /\ Len(writing[1].items) = 1
    /\ ~SetHas(deselected, writing[1].items[1].id)

(***************************************************************************)
(* The builders of the prompt, Markdown and JSON outputs.  An item is a    *)
(* Suggestion record; an absent text field (null or the empty string) is   *)
(* the empty tuple, an absent number is Null.                              *)
(***************************************************************************)
Item(id, text, summary, sourceUrl, filePath, lineStart, lineEnd, codeMentioned, reviewText, suggestedChange) ==
    [id |-> id, text |-> text, summary |-> summary, sourceUrl |-> sourceUrl,
     filePath |-> filePath, lineStart |-> lineStart, lineEnd |-> lineEnd,
     codeMentioned |-> codeMentioned, reviewText |-> reviewText,
     suggestedChange |-> suggestedChange]

\* Boolean(x) for a number or null.
TruthyNum(x) == x # Null /\ x[1] # 0

\* Boolean(x) for a string or null.
Truthy(x) == x # <<>>

\* s.lineStart && s.lineEnd ? (equal ? `L${a}` : `L${a}-L${b}`) : null
linesLabel(s) ==
    IF TruthyNum(s.lineStart) /\ TruthyNum(s.lineEnd)
    THEN IF s.lineStart = s.lineEnd
         THEN <<"L">> \o ToDigits(s.lineStart[1])
         ELSE <<"L">> \o ToDigits(s.lineStart[1]) \o <<"-","L">> \o ToDigits(s.lineEnd[1])
    ELSE <<>>

fileLine(s) ==
    IF Truthy(s.filePath) \/ Truthy(linesLabel(s))
    THEN <<"F","i","l","e",":"," ">> \o (IF Truthy(s.filePath) THEN s.filePath ELSE <<"u","n","k","n","o","w","n">>)
         \o (IF Truthy(linesLabel(s)) THEN <<" ","(">> \o linesLabel(s) \o <<")">> ELSE <<>>)
    ELSE <<>>

review(s) == IF Truthy(s.reviewText) THEN <<"R","e","v","i","e","w",":">> \o NL \o s.reviewText ELSE <<>>

codeMentioned(s) ==
    IF Truthy(s.codeMentioned) THEN <<"C","o","d","e"," ","m","e","n","t","i","o","n","e","d",":">> \o NL \o s.codeMentioned ELSE <<>>

SuggestedWord == <<"S","u","g","g","e","s","t","e","d">>

SuggestedChangeLabel == <<"S","u","g","g","e","s","t","e","d"," ","c","h","a","n","g","e",":">>

\* content.trim().startsWith("Suggested") ? content : `Suggested change:\n${content}`
Labelled(content) ==
    IF StartsWithAt(trim(content), 1, SuggestedWord) THEN content
    ELSE SuggestedChangeLabel \o NL \o content

suggestionBlock(s) ==
    IF Truthy(s.suggestedChange) THEN Labelled(s.suggestedChange)
    ELSE IF Truthy(s.text) /\ s.text # s.summary THEN Labelled(s.text)
    ELSE <<>>

\* Array.prototype.filter(Boolean) for an array of strings and nulls.
FilterBoolean(parts) == SelectSeq(parts, Truthy)

\* The block of the item at index idx (from 0).
PromptBlock(s, idx) ==
    Join(FilterBoolean(<< <<"#">> \o ToDigits(idx + 1) \o <<" ">> \o s.summary,
                          fileLine(s), codeMentioned(s), review(s), suggestionBlock(s),
                          <<>> >>), NL)

\* items.map((s, idx) => ...) from index idx on.
RECURSIVE PromptBlocks(_, _)
PromptBlocks(items, idx) ==
    IF items = <<>> THEN <<>>
    ELSE <<PromptBlock(Head(items), idx)>> \o PromptBlocks(Tail(items), idx + 1)

PromptHeader(href) ==
    Join(<< <<"T","a","s","k",":"," ","A","p","p","l","y"," ","t","h","e"," ","f","o","l","l","o","w","i","n","g"," ","G","i","t","H","u","b"," ","C","o","p","i","l","o","t"," ","r","e","v","i","e","w"," ","s","u","g","g","e","s","t","i","o","n","s"," ","t","o"," ","t","h","e"," ","c","o","d","e","b","a","s","e"," ","i","n"," ","t","h","i","s"," ","P","R",".">>,
            <<"P","R",":"," ">> \o href,
            <<"I","n","s","t","r","u","c","t","i","o","n","s",":">>,
            <<"-"," ","F","o","r"," ","e","a","c","h"," ","i","t","e","m",","," ","i","m","p","l","e","m","e","n","t"," ","t","h","e"," ","c","h","a","n","g","e"," ","d","e","s","c","r","i","b","e","d",".">>,
            <<"-"," ","I","f"," ","m","u","l","t","i","p","l","e"," ","f","i","l","e","s"," ","a","r","e"," ","i","m","p","a","c","t","e","d",","," ","u","p","d","a","t","e"," ","a","l","l"," ","r","e","l","e","v","a","n","t"," ","l","o","c","a","t","i","o","n","s",".">>,
            <<"-"," ","P","r","e","s","e","r","v","e"," ","e","x","i","s","t","i","n","g"," ","b","e","h","a","v","i","o","r"," ","u","n","l","e","s","s"," ","a"," ","c","h","a","n","g","e"," ","i","s"," ","e","x","p","l","i","c","i","t","l","y"," ","r","e","q","u","e","s","t","e","d",".">>,
            <<>> >>, NL)

buildPrompt(items, href) ==
    PromptHeader(href) \o NL \o Join(PromptBlocks(items, 0), NL)

Fence == <<"GRAVE","GRAVE","GRAVE">>

MarkdownTitle(s) ==
    Join((IF Truthy(s.filePath) THEN <<s.filePath>> ELSE <<>>)
         \o (IF Truthy(linesLabel(s)) THEN << <<"(">> \o linesLabel(s) \o <<")">> >> ELSE <<>>),
         <<" ">>)

MarkdownSection(s, idx) ==
    Join(<< <<"#","#","#"," ">> \o ToDigits(idx + 1) \o <<"."," ">> \o s.summary >>
         \o (IF Truthy(MarkdownTitle(s)) THEN << <<"F","i","l","e",":"," ">> \o MarkdownTitle(s) >> ELSE <<>>)
         \o (IF Truthy(s.codeMentioned)
             THEN << <<"C","o","d","e"," ","m","e","n","t","i","o","n","e","d",":">> \o NL \o NL \o Fence \o NL \o s.codeMentioned \o NL \o Fence >>
             ELSE <<>>)
         \o (IF Truthy(s.reviewText) THEN << <<"R","e","v","i","e","w",":">> \o NL \o NL \o s.reviewText >> ELSE <<>>)
         \o (IF Truthy(s.suggestedChange)
             THEN << SuggestedChangeLabel \o NL \o NL \o Fence \o NL \o s.suggestedChange \o NL \o Fence >>
             ELSE <<>>),
         NL \o NL)

\* A section list that holds one section per distinct id.
RECURSIVE MarkdownSections_Distinct(_, _)
MarkdownSections_Distinct(items, idx) ==
    IF items = <<>> THEN <<>>
    ELSE IF \E k \in 2..Len(items) : items[k].id = Head(items).id
         THEN MarkdownSections_Distinct(Tail(items), idx)
    ELSE <<MarkdownSection(Head(items), idx)>> \o MarkdownSections_Distinct(Tail(items), idx + 1)

RECURSIVE MarkdownSections(_, _)
MarkdownSections(items, idx) ==
    IF items = <<>> THEN <<>>
    ELSE <<MarkdownSection(Head(items), idx)>> \o MarkdownSections(Tail(items), idx + 1)

buildMarkdown(items, href) ==
    Join(<< <<"#","#"," ","P","R">> \o NL \o href, <<>> >> \o MarkdownSections(items, 0), NL)

\* JSON.stringify of a string: quote, backslash and line feed are escaped.
RECURSIVE JSONEscape(_)
JSONEscape(s) ==
    IF s = <<>> THEN <<>>
    ELSE (IF Head(s) = "\"" \/ Head(s) = "\\" THEN <<"\\", Head(s)>>
          ELSE IF Head(s) = "\n" THEN <<"\\", "n">>
          ELSE <<Head(s)>>)
         \o JSONEscape(Tail(s))

JSONString(s) == <<"\"">> \o JSONEscape(s) \o <<"\"">>

JSONNull == <<"n","u","l","l">>

\* x || null for a string.
JSONStringOrNull(x) == IF Truthy(x) THEN JSONString(x) ELSE JSONNull

\* x ?? null for a number; JSON.stringify writes NaN as null.
JSONNumberOrNull(x) == IF x = Null THEN JSONNull ELSE ToDigits(x[1])

Spaces(n) == [k \in 1..n |-> " "]

\* "key": value at the given indentation.
Member(indent, key, value) == Spaces(indent) \o JSONString(key) \o <<":"," ">> \o value

HasValue(pair) == pair[2] # JSONNull

\* A record that leaves out the members whose value is null.
normalized_DropsNull(s) ==
    SelectSeq(<< <<<<"i","d">>, JSONString(s.id)>>,
                 <<<<"f","i","l","e","P","a","t","h">>, JSONStringOrNull(s.filePath)>>,
                 <<<<"l","i","n","e","S","t","a","r","t">>, JSONNumberOrNull(s.lineStart)>>,
                 <<<<"l","i","n","e","E","n","d">>, JSONNumberOrNull(s.lineEnd)>>,
                 <<<<"s","u","m","m","a","r","y">>, JSONString(s.summary)>>,
                 <<<<"c","o","d","e","M","e","n","t","i","o","n","e","d">>, JSONStringOrNull(s.codeMentioned)>>,
                 <<<<"r","e","v","i","e","w","T","e","x","t">>, JSONStringOrNull(s.reviewText)>>,
                 <<<<"s","u","g","g","e","s","t","e","d","C","h","a","n","g","e">>, JSONStringOrNull(s.suggestedChange)>>,
                 <<<<"s","o","u","r","c","e","U","r","l">>, JSONString(s.sourceUrl)>> >>,
              HasValue)

\* The record buildJSON makes of an item: its members, in order, as texts.
normalized(s) ==
    << <<<<"i","d">>, JSONString(s.id)>>,
       <<<<"f","i","l","e","P","a","t","h">>, JSONStringOrNull(s.filePath)>>,
       <<<<"l","i","n","e","S","t","a","r","t">>, JSONNumberOrNull(s.lineStart)>>,
       <<<<"l","i","n","e","E","n","d">>, JSONNumberOrNull(s.lineEnd)>>,
       <<<<"s","u","m","m","a","r","y">>, JSONString(s.summary)>>,
       <<<<"c","o","d","e","M","e","n","t","i","o","n","e","d">>, JSONStringOrNull(s.codeMentioned)>>,
       <<<<"r","e","v","i","e","w","T","e","x","t">>, JSONStringOrNull(s.reviewText)>>,
       <<<<"s","u","g","g","e","s","t","e","d","C","h","a","n","g","e">>, JSONStringOrNull(s.suggestedChange)>>,
       <<<<"s","o","u","r","c","e","U","r","l">>, JSONString(s.sourceUrl)>> >>

RECURSIVE Members(_, _)
Members(indent, pairs) ==
    IF pairs = <<>> THEN <<>>
    ELSE <<Member(indent, Head(pairs)[1], Head(pairs)[2])>> \o Members(indent, Tail(pairs))

\* JSON.stringify(object, null, 2) of a record, at the given indentation.
JSONObject(indent, pairs) ==
    IF pairs = <<>> THEN <<"{","}">>
    ELSE <<"{">> \o NL \o Join(Members(indent + 2, pairs), <<",">> \o NL) \o NL
         \o Spaces(indent) \o <<"}">>

RECURSIVE JSONObjects(_, _)
JSONObjects(indent, items) ==
    IF items = <<>> THEN <<>>
    ELSE <<Spaces(indent) \o JSONObject(indent, normalized(Head(items)))>>
         \o JSONObjects(indent, Tail(items))

\* JSON.stringify(array, null, 2) of the records, at the given indentation.
JSONArray(indent, items) ==
    IF items = <<>> THEN <<"[","]">>
    ELSE <<"[">> \o NL \o Join(JSONObjects(indent + 2, items), <<",">> \o NL) \o NL
         \o Spaces(indent) \o <<"]">>

buildJSON(items, href) ==
    JSONObject(0, << <<<<"p","r">>, JSONString(href)>>,
                     <<<<"s","u","g","g","e","s","t","i","o","n","s">>, JSONArray(2, items)>> >>)

(***************************************************************************)
(* JSON.parse, for the round trip of buildJSON.  A parsed value is a       *)
(* record [t, v]: t is the kind, v the characters of a string, the digits  *)
(* of a number, the elements of an array or the members [k, val] of an     *)
(* object, in the order of the text.                                       *)
(***************************************************************************)
JStr(x) == [t |-> "string", v |-> x]
JNum(n) == [t |-> "number", v |-> ToDigits(n)]
JNull   == [t |-> "null", v |-> <<>>]

ParseFailed == [ok |-> FALSE, val |-> JNull, next |-> 0]

RECURSIVE SkipWs(_, _)
SkipWs(s, p) == IF p <= Len(s) /\ s[p] \in {" ", "\n", "\t"} THEN SkipWs(s, p + 1) ELSE p

\* Reads a string whose opening quote is at p - 1; next = 0 if it does not end.
RECURSIVE JSONParseString(_, _, _)
JSONParseString(s, p, acc) ==
    IF p > Len(s) THEN [str |-> acc, next |-> 0]
    ELSE IF s[p] = "\"" THEN [str |-> acc, next |-> p + 1]
    ELSE IF s[p] = "\\"
         THEN IF p + 1 > Len(s) THEN [str |-> acc, next |-> 0]
              ELSE JSONParseString(s, p + 2,
                       Append(acc, IF s[p + 1] = "n" THEN "\n"
                                   ELSE IF s[p + 1] = "t" THEN "\t" ELSE s[p + 1]))
    ELSE IF s[p] = "\n" THEN [str |-> acc, next |-> 0]
    ELSE JSONParseString(s, p + 1, Append(acc, s[p]))

RECURSIVE JSONParseValue(_, _)
RECURSIVE JSONParseElements(_, _, _)
RECURSIVE JSONParseMembers(_, _, _)

JSONParseValue(s, from) ==
    LET p == SkipWs(s, from)
    IN  IF p > Len(s) THEN ParseFailed
        ELSE IF s[p] = "\""
             THEN LET r == JSONParseString(s, p + 1, <<>>)
                  IN  IF r.next = 0 THEN ParseFailed
                      ELSE [ok |-> TRUE, val |-> JStr(r.str), next |-> r.next]
        ELSE IF StartsWithAt(s, p, JSONNull)
             THEN [ok |-> TRUE, val |-> JNull, next |-> p + 4]
        ELSE IF IsDigit(s[p])
             THEN [ok |-> TRUE,
                   val |-> [t |-> "number", v |-> SubSeq(s, p, p + DigitRun(s, p) - 1)],
                   next |-> p + DigitRun(s, p)]
        ELSE IF s[p] = "["
             THEN IF SkipWs(s, p + 1) <= Len(s) /\ s[SkipWs(s, p + 1)] = "]"
                  THEN [ok |-> TRUE, val |-> [t |-> "array", v |-> <<>>],
                        next |-> SkipWs(s, p + 1) + 1]
                  ELSE JSONParseElements(s, p + 1, <<>>)
        ELSE IF s[p] = "{"
             THEN IF SkipWs(s, p + 1) <= Len(s) /\ s[SkipWs(s, p + 1)] = "}"
                  THEN [ok |-> TRUE, val |-> [t |-> "object", v |-> <<>>],
                        next |-> SkipWs(s, p + 1) + 1]
                  ELSE JSONParseMembers(s, p + 1, <<>>)
        ELSE ParseFailed

\* The elements of an array from p on (just after "[" or ",").
JSONParseElements(s, p, acc) ==
    LET r == JSONParseValue(s, p)
        q == SkipWs(s, r.next)
    IN  IF ~r.ok \/ q > Len(s) THEN ParseFailed
        ELSE IF s[q] = "," THEN JSONParseElements(s, q + 1, Append(acc, r.val))
        ELSE IF s[q] = "]"
             THEN [ok |-> TRUE, val |-> [t |-> "array", v |-> Append(acc, r.val)], next |-> q + 1]
        ELSE ParseFailed

\* The members of an object from p on (just after "{" or ",").
JSONParseMembers(s, p, acc) ==
    LET k0 == SkipWs(s, p)
        key == IF k0 <= Len(s) /\ s[k0] = "\"" THEN JSONParseString(s, k0 + 1, <<>>)
               ELSE [str |-> <<>>, next |-> 0]
        c == SkipWs(s, key.next)
        r == IF key.next # 0 /\ c <= Len(s) /\ s[c] = ":" THEN JSONParseValue(s, c + 1)
             ELSE ParseFailed
        q == SkipWs(s, r.next)
    IN  IF ~r.ok \/ q > Len(s) THEN ParseFailed
        ELSE IF s[q] = ","
             THEN JSONParseMembers(s, q + 1, Append(acc, [k |-> key.str, val |-> r.val]))
        ELSE IF s[q] = "}"
             THEN [ok |-> TRUE,
                   val |-> [t |-> "object", v |-> Append(acc, [k |-> key.str, val |-> r.val])],
                   next |-> q + 1]
        ELSE ParseFailed

\* JSON.parse(text): the value, or ok = FALSE where JSON.parse throws.
JSONParse(text) ==
    LET r == JSONParseValue(text, 1)
    IN  IF r.ok /\ SkipWs(text, r.next) = Len(text) + 1 THEN r ELSE ParseFailed

(***************************************************************************)
(* The builders on lists of suggestions                                    *)
(***************************************************************************)
MaxItems == 2

\* Suggestions as extraction makes them: with and without a file path, a
\* line range, code, review text and a suggested change; the text equal to
\* the summary or not; a suggested change that carries its label or not.
ItemPalette ==
    { Item(<<"t","1",":","0",":","0",":","a","1">>, <<"U","s","e"," ","y">>, <<"U","s","e"," ","y">>, <<"u","#","r","1">>, <<"a",".","j","s">>, Num(3), Num(5), <<"x"," ","="," ","1","\n","z"," ","="," ","x">>, <<"U","s","e"," ","y">>, <<"S","u","g","g","e","s","t","e","d"," ","c","h","a","n","g","e",":","\n","y"," ","="," ","1">>),
      Item(<<"t","1",":","0",":","1",":","b","2">>, <<"A","d","d"," ","a"," ","g","u","a","r","d">>, <<"A","d","d"," ","a"," ","g","u","a","r","d">>, <<"u","#","r","2">>, <<>>, Null, Null, <<>>, <<"A","d","d"," ","a"," ","g","u","a","r","d">>, <<>>),
      Item(<<"t","2",":","0",":","0",":","c","3">>, <<"R","e","n","a","m","e"," ","x">>, <<"R","e","n","a","m","e"," ","x","."," ","T","h","e","n"," ","t","e","s","t">>, <<"u","#","r","1">>, <<"l","i","b","/","b",".","j","s">>, Null, Null, <<>>, <<"R","e","n","a","m","e"," ","x","."," ","T","h","e","n"," ","t","e","s","t">>, <<>>),
      Item(<<"t","2",":","1",":","0",":","d","4">>, <<"y"," ","="," ","2">>, <<"y"," ","="," ","2">>, <<"u","#","r","2">>, <<>>, Num(7), Num(7), <<>>, <<>>, <<"y"," ","="," ","2">>),
      Item(<<"t","3",":","0",":","0",":","e","5">>, <<"S","u","g","g","e","s","t","e","d"," ","d","i","f","f",":","\n","-"," ","a","\n","+"," ","b">>, <<"S","a","y"," ","\"","n","o","\"">>, <<"u","#","r","1">>, <<>>, Null, Num(9), <<"a">>, <<"S","a","y"," ","\"","n","o","\"">>, <<"S","u","g","g","e","s","t","e","d"," ","d","i","f","f",":","\n","-"," ","a","\n","+"," ","b">>) }

PullHref == Origin \o PullOne

BuildInputs == {[items |-> q, href |-> PullHref] : q \in SeqsUpTo(ItemPalette, MaxItems)}

BuildInit == SysIdle /\ pc = "call" /\ arg \in BuildInputs /\ ret = <<>>

\* One call of buildPrompt.
BuildPromptCall ==
    /\ pc = "call"
    /\ ret' = buildPrompt(arg.items, arg.href)
    /\ pc' = "prompt"
    /\ UNCHANGED <<arg, sysvars>>

\* One call of buildMarkdown.
BuildMarkdownCall ==
    /\ pc = "call"
    /\ ret' = buildMarkdown(arg.items, arg.href)
    /\ pc' = "markdown"
    /\ UNCHANGED <<arg, sysvars>>

\* One call of buildJSON.
BuildJSONCall ==
    /\ pc = "call"
    /\ ret' = buildJSON(arg.items, arg.href)
    /\ pc' = "json"
    /\ UNCHANGED <<arg, sysvars>>

BuildNext == BuildPromptCall \/ BuildMarkdownCall \/ BuildJSONCall

BuildSpec == BuildInit /\ [][BuildNext]_vars

MemberKeys(obj) == [i \in 1..Len(obj.v) |-> obj.v[i].k]

MemberValue(obj, key) == obj.v[CHOOSE i \in 1..Len(obj.v) : obj.v[i].k = key].val

RecordKeys ==
    <<<<"i","d">>, <<"f","i","l","e","P","a","t","h">>, <<"l","i","n","e","S","t","a","r","t">>, <<"l","i","n","e","E","n","d">>, <<"s","u","m","m","a","r","y">>,
      <<"c","o","d","e","M","e","n","t","i","o","n","e","d">>, <<"r","e","v","i","e","w","T","e","x","t">>, <<"s","u","g","g","e","s","t","e","d","C","h","a","n","g","e">>, <<"s","o","u","r","c","e","U","r","l">>>>

JStrOrNull(x) == IF Truthy(x) THEN JStr(x) ELSE JNull

JNumOrNull(x) == IF x = Null THEN JNull ELSE JNum(x[1])

\* The record of the document stands for the item: the nine keys, each with
\* the item's value, or null where the item has none.
Describes(rec, s) ==
    /\ rec.t = "object"
    /\ MemberKeys(rec) = RecordKeys
    /\ MemberValue(rec, <<"i","d">>) = JStr(s.id)
    /\ MemberValue(rec, <<"f","i","l","e","P","a","t","h">>) = JStrOrNull(s.filePath)
    /\ MemberValue(rec, <<"l","i","n","e","S","t","a","r","t">>) = JNumOrNull(s.lineStart)
    /\ MemberValue(rec, <<"l","i","n","e","E","n","d">>) = JNumOrNull(s.lineEnd)
    /\ MemberValue(rec, <<"s","u","m","m","a","r","y">>) = JStr(s.summary)
    /\ MemberValue(rec, <<"c","o","d","e","M","e","n","t","i","o","n","e","d">>) = JStrOrNull(s.codeMentioned)
    /\ MemberValue(rec, <<"r","e","v","i","e","w","T","e","x","t">>) = JStrOrNull(s.reviewText)
    /\ MemberValue(rec, <<"s","u","g","g","e","s","t","e","d","C","h","a","n","g","e">>) = JStrOrNull(s.suggestedChange)
    /\ MemberValue(rec, <<"s","o","u","r","c","e","U","r","l">>) = JStr(s.sourceUrl)

\* C17: JSON.parse of buildJSON(items) is an object whose member suggestions
\* is an array as long as items; its k-th record stands for the k-th item and
\* has all nine keys, with null for each value the item lacks.
C17_JSONRoundTrip ==
    pc = "json" =>
        /\ JSONParse(ret).ok
        /\ JSONParse(ret).val.t = "object"
        /\ MemberKeys(JSONParse(ret).val) = <<<<"p","r">>, <<"s","u","g","g","e","s","t","i","o","n","s">>>>
        /\ MemberValue(JSONParse(ret).val, <<"p","r">>) = JStr(arg.href)
        /\ MemberValue(JSONParse(ret).val, <<"s","u","g","g","e","s","t","i","o","n","s">>).t = "array"
        /\ Len(MemberValue(JSONParse(ret).val, <<"s","u","g","g","e","s","t","i","o","n","s">>).v) = Len(arg.items)
        /\ \A k \in 1..Len(arg.items) :
              Describes(MemberValue(JSONParse(ret).val, <<"s","u","g","g","e","s","t","i","o","n","s">>).v[k], arg.items[k])

\* A document for two items: the first has no file path, no lines, no code and
\* no suggested change, the second has them all.
C17_Witness ==
    /\ pc = "json"
    /\ Len(arg.items) = 2
    /\ arg.items[1].filePath = <<>> /\ arg.items[1].lineStart = Null
    /\ arg.items[1].codeMentioned = <<>> /\ arg.items[1].suggestedChange = <<>>
    /\ arg.items[2].filePath # <<>> /\ arg.items[2].lineStart # Null
    /\ arg.items[2].codeMentioned # <<>> /\ arg.items[2].suggestedChange # <<>>
    /\ includes(ret, <<"\"","f","i","l","e","P","a","t","h","\"",":"," ","n","u","l","l">>)

\* The positions of the lines that begin with the given mark.
HeadPositions(lines, mark) == {k \in 1..Len(lines) : StartsWithAt(lines[k], 1, mark)}

\* The text from the k-th line that begins with the mark up to the line before
\* the next one (or the last line).
OutputBlock(lines, mark, k, sep) ==
    Join(SubSeq(lines, Kth(HeadPositions(lines, mark), k),
                IF k < Cardinality(HeadPositions(lines, mark))
                THEN Kth(HeadPositions(lines, mark), k + 1) - 1
                ELSE Len(lines)), sep)

PromptMark == <<"#">>

MarkdownMark == <<"#","#","#"," ">>

\* C18: the prompt holds one block per item, the k-th headed "#k " and the
\* summary of the k-th item and made of that item's parts; the Markdown text
\* holds one section per item, the k-th headed "### k. " and the summary of the
\* k-th item and made of that item's parts; the JSON document holds one record
\* per item, the k-th with the id of the k-th item.  Items that occur twice in
\* the input occur twice in the output.
C18_OneBlockPerItemInOrder ==
    /\ pc = "prompt" =>
          /\ Cardinality(HeadPositions(SplitLines(ret), PromptMark)) = Len(arg.items)
          /\ \A k \in 1..Len(arg.items) :
                /\ SplitLines(ret)[Kth(HeadPositions(SplitLines(ret), PromptMark), k)]
                      = <<"#">> \o ToDigits(k) \o <<" ">> \o arg.items[k].summary
                /\ OutputBlock(SplitLines(ret), PromptMark, k, NL) = PromptBlock(arg.items[k], k - 1)
    /\ pc = "markdown" =>
          /\ Cardinality(HeadPositions(SplitLines(ret), MarkdownMark)) = Len(arg.items)
          /\ \A k \in 1..Len(arg.items) :
                /\ SplitLines(ret)[Kth(HeadPositions(SplitLines(ret), MarkdownMark), k)]
                      = MarkdownMark \o ToDigits(k) \o <<"."," ">> \o arg.items[k].summary
                /\ OutputBlock(SplitLines(ret), MarkdownMark, k, NL) = MarkdownSection(arg.items[k], k - 1)
    /\ pc = "json" =>
          /\ JSONParse(ret).ok
          /\ Len(MemberValue(JSONParse(ret).val, <<"s","u","g","g","e","s","t","i","o","n","s">>).v) = Len(arg.items)
          /\ \A k \in 1..Len(arg.items) :
                MemberValue(MemberValue(JSONParse(ret).val, <<"s","u","g","g","e","s","t","i","o","n","s">>).v[k], <<"i","d">>)
                   = JStr(arg.items[k].id)

\* The Markdown text for a list that holds the same item twice: two sections.
C18_Witness ==
    /\ pc = "markdown"
    /\ Len(arg.items) = 2
    /\ arg.items[1] = arg.items[2]
    /\ Cardinality(HeadPositions(SplitLines(ret), MarkdownMark)) = 2

\* The content of the suggested-change block of an item as the claim has it:
\* suggestedChange when present, text otherwise.
ChangeContent(s) == IF Truthy(s.suggestedChange) THEN s.suggestedChange ELSE s.text

\* C19: in the prompt, the block of every item contains the item's
\* suggestedChange when it has one and its text otherwise, as it is when it
\* begins with "Suggested change:" and behind a line "Suggested change:"
\* when it does not.
C19_SuggestedChangeBlock ==
    pc = "prompt" =>
        \A k \in 1..Len(arg.items) :
            includes(OutputBlock(SplitLines(ret), PromptMark, k, NL),
                     IF StartsWithAt(ChangeContent(arg.items[k]), 1, SuggestedChangeLabel)
                     THEN NL \o ChangeContent(arg.items[k])
                     ELSE NL \o SuggestedChangeLabel \o NL \o ChangeContent(arg.items[k]))

(***************************************************************************)
(* The classifier on single comments                                       *)
(***************************************************************************)
AuthorTexts == {<<>>, <<"a","l","i","c","e">>, <<"C","o","p","i","l","o","t">>, <<"G","i","t","H","u","b"," ","C","O","P","I","L","O","T"," ","b","o","t">>}

AuthorHrefs == {<<>>, <<"/","a","l","i","c","e">>, <<"/","a","p","p","s","/","c","o","p","i","l","o","t","-","p","u","l","l","-","r","e","q","u","e","s","t","-","r","e","v","i","e","w","e","r">>, <<"/","a","p","p","s","/","g","i","t","h","u","b","-","c","o","p","i","l","o","t">>, <<"/","g","i","t","h","u","b","c","o","p","i","l","o","t">>}

BadgeTexts == {<<>>, <<"b","o","t">>, <<"A","I">>}

BodyTexts == {<<"R","e","n","a","m","e"," ","x">>, <<"A","s","k"," ","C","o","p","i","l","o","t",","," ","t","h","e","n"," ","m","e","r","g","e">>, <<"T","w","o"," ","c","o","p","i","l","o","t","s">>, <<"A","I"," "," ","r","e","v","i","e","w"," ","b","e","l","o","w">>, <<"S","a","i","d"," ","r","e","v","i","e","w","e","r">>}

\* Comments with every combination of author text, author link target, badge
\* text and body text; the body is a comment body or, when hasBody is false,
\* the content of a task-lists element.
ClassifyInputs ==
    {CommentRoot(a, h, b, ~hasBody, hasBody, <<Para(t)>>) :
        a \in AuthorTexts, h \in AuthorHrefs, b \in BadgeTexts,
        hasBody \in BOOLEAN, t \in BodyTexts}

ClassifyInit == SysIdle /\ pc = "call" /\ arg \in ClassifyInputs /\ ret = <<>>

\* One call of isCopilotAuthor.
ClassifyCall ==
    /\ pc = "call"
    /\ ret' = isCopilotAuthor(arg)
    /\ pc' = "done"
    /\ UNCHANGED <<arg, sysvars>>

ClassifyNext == ClassifyCall

ClassifySpec == ClassifyInit /\ [][ClassifyNext]_vars

ReviewerName == <<"c","o","p","i","l","o","t">>

\* The text contains the reviewer's name, whatever the case of its letters.
NamesReviewer(text) ==
    \E p \in 1..Len(text) :
        /\ p + Len(ReviewerName) - 1 <= Len(text)
        /\ \A k \in 1..Len(ReviewerName) : LowerChar(text[p + k - 1]) = ReviewerName[k]

AuthorTextSignal(c) == NamesReviewer(c.authorText)

AuthorHrefSignal(c) == includes(c.authorHref, <<"g","i","t","h","u","b","-","c","o","p","i","l","o","t">>) \/ includes(c.authorHref, <<"g","i","t","h","u","b","c","o","p","i","l","o","t">>)

BadgeSignal(c) == includes(toLowerCase(c.botText), <<"b","o","t">>) /\ NamesReviewer(c.authorText)

BodySignal(c) ==
    /\ c.hasBody
    /\ \/ HasCopilotWord(toLowerCase(safeText(textContent(c.body))))
       \/ HasAiReview(toLowerCase(safeText(textContent(c.body))))

C20_WitnessNone ==
    /\ pc = "done"
    /\ arg.authorText = <<"a","l","i","c","e">>
    /\ arg.authorHref = <<"/","a","p","p","s","/","c","o","p","i","l","o","t","-","p","u","l","l","-","r","e","q","u","e","s","t","-","r","e","v","i","e","w","e","r">>
    /\ arg.botText = <<"b","o","t">>
    /\ arg.body = <<Para(<<"T","w","o"," ","c","o","p","i","l","o","t","s">>)>>
    /\ ret = FALSE

(***************************************************************************)
(* The file-path locator.  A container is given by the elements the        *)
(* locator's selectors find in it; an element that is absent is the empty  *)
(* tuple, one that is present the tuple of its text (or attribute value).  *)
(***************************************************************************)
\* summaryLink: details-collapsible summary a (its text)
\* dataPath:    the first [data-path] element (its attribute value)
\* fileLink:    the first a.js-file-link, a.Link--primary, a.Link--secondary (its text)
\* pathy:       the first [title*="/"], [aria-label*="/"] element (its text)
Header(summaryLink, dataPath, fileLink, pathy) ==
    [summaryLink |-> summaryLink, dataPath |-> dataPath, fileLink |-> fileLink, pathy |-> pathy]

\* safeText(el): "" for an absent element.
safeTextOf(el) == IF el = <<>> THEN <<>> ELSE safeText(el[1])

\* /\.\w+$/.test(s)
HasExtension(s) ==
    \E p \in 1..(Len(s) - 1) : s[p] = "." /\ \A k \in (p + 1)..Len(s) : IsWordChar(s[k])

findFilePathInFrame(frame) ==
    IF frame.summaryLink # <<>> THEN safeTextOf(frame.summaryLink)
    ELSE IF frame.dataPath # <<>> /\ frame.dataPath[1] # <<>> THEN trim(frame.dataPath[1])
    ELSE IF /\ safeTextOf(frame.fileLink) # <<>>
            /\ (includes(safeTextOf(frame.fileLink), <<"/">>) \/ HasExtension(safeTextOf(frame.fileLink)))
         THEN safeTextOf(frame.fileLink)
    ELSE IF safeTextOf(frame.pathy) # <<>> /\ includes(safeTextOf(frame.pathy), <<"/">>)
         THEN safeTextOf(frame.pathy)
    ELSE Null

\* filePath: context.filePath || null
FilePathOf(frame) == IF Truthy(findFilePathInFrame(frame)) THEN findFilePathInFrame(frame) ELSE Null

Absent == <<>>

PathInputs ==
    {Header(a, b, c, d) :
        a \in {Absent, <<<<>>>>, <<<<" ","l","i","b","/","a",".","j","s"," ">>>>},
        b \in {Absent, <<<<>>>>, <<<<"s","r","c","/","b",".","j","s">>>>},
        c \in {Absent, <<<<"R","E","A","D","M","E">>>>, <<<<"c",".","e","x">>>>, <<<<"d","/","e">>>>},
        d \in {Absent, <<<<"V","i","e","w"," ","f","i","l","e">>>>, <<<<"f","/","g">>>>}}

PathInit == SysIdle /\ pc = "call" /\ arg \in PathInputs /\ ret = <<>>

\* One evaluation of filePath: findFilePathInFrame(frame) ... context.filePath || null.
PathCall ==
    /\ pc = "call"
    /\ ret' = FilePathOf(arg)
    /\ pc' = "done"
    /\ UNCHANGED <<arg, sysvars>>

PathNext == PathCall

PathSpec == PathInit /\ [][PathNext]_vars

\* What each strategy yields for a container, in priority order: the text of
\* the structured link; the path attribute; the file-link text when it looks
\* like a path; the text of the title/label element when it holds a slash.
Yields(frame) ==
    << safeTextOf(frame.summaryLink),
       IF frame.dataPath = <<>> THEN <<>> ELSE trim(frame.dataPath[1]),
       IF includes(safeTextOf(frame.fileLink), <<"/">>) \/ HasExtension(safeTextOf(frame.fileLink))
       THEN safeTextOf(frame.fileLink) ELSE <<>>,
       IF includes(safeTextOf(frame.pathy), <<"/">>) THEN safeTextOf(frame.pathy) ELSE <<>> >>

\* C21: the Suggestion's filePath is what the first strategy that yields a
\* non-empty string yields, and null only when none of the four does.
C21_FirstNonEmptyStrategy ==
    pc = "done" =>
        /\ \A k \in 1..4 :
              (Yields(arg)[k] # <<>> /\ \A j \in 1..(k - 1) : Yields(arg)[j] = <<>>)
                  => ret = Yields(arg)[k]
        /\ ret = Null => \A k \in 1..4 : Yields(arg)[k] = <<>>

(***************************************************************************)
(* summarize                                                               *)
(***************************************************************************)
maxLen == 140

SentenceFrom == 60

\* A character of a text stays when it is not white space or begins a run of
\* white space.
Stays(c) == c.stays

\* text.replace(/\s+/g, " "): every run of white space becomes one space.
CollapseWs(s) ==
    LET marked == [k \in 1..Len(s) |->
                     [c |-> IF IsSpace(s[k]) THEN " " ELSE s[k],
                      stays |-> ~IsSpace(s[k]) \/ k = 1 \/ ~IsSpace(s[k - 1])]]
        kept == SelectSeq(marked, Stays)
    IN  [n \in 1..Len(kept) |-> kept[n].c]

\* t.indexOf(".", from), as a position counted from 1; 0 when there is none.
IndexOfPeriod(t, from) ==
    IF \E k \in (from + 1)..Len(t) : t[k] = "."
    THEN CHOOSE k \in (from + 1)..Len(t) : t[k] = "." /\ \A j \in (from + 1)..(k - 1) : t[j] # "."
    ELSE 0

\* A summary cut after maxLen characters, the ellipsis added to them.
summarize_LongEllipsis(text) ==
    LET t == trim(CollapseWs(text))
        sentenceEnd == IndexOfPeriod(t, SentenceFrom) - 1
    IN  IF Len(t) <= maxLen THEN t
        ELSE IF sentenceEnd > 0 /\ sentenceEnd < maxLen THEN SubSeq(t, 1, sentenceEnd + 1)
        ELSE SubSeq(t, 1, maxLen) \o <<"ELLIPSIS">>

\* summarize(text, maxLen = 140); sentenceEnd is the index counted from 0,
\* -1 when there is no period.
summarize(text) ==
    LET t == trim(CollapseWs(text))
        sentenceEnd == IndexOfPeriod(t, SentenceFrom) - 1
    IN  IF Len(t) <= maxLen THEN t
        ELSE IF sentenceEnd > 0 /\ sentenceEnd < maxLen THEN SubSeq(t, 1, sentenceEnd + 1)
        ELSE SubSeq(t, 1, maxLen - 1) \o <<"ELLIPSIS">>

\* summary: summarize(context.reviewText || text)
SummaryOf(s) == summarize(IF Truthy(s.reviewText) THEN s.reviewText ELSE s.text)

\* A text of n characters: words of six letters, a period at position p (if
\* any), and one or two white-space characters between the words.
Filler(n, p, wide) ==
    [k \in 1..n |-> IF k = p THEN "."
                    ELSE IF k % 7 = 0 THEN " "
                    ELSE IF wide /\ k % 7 = 1 /\ k > 1 THEN "\n"
                    ELSE "a"]

SummaryTexts ==
    {Filler(n, p, wide) : n \in {5, 139, 140, 141, 150, 170}, p \in {0, 3, 60, 61, 62, 139, 140, 141, 145},
                          wide \in BOOLEAN}

\* text and reviewText of a Suggestion: reviewText is null or a text.
SummaryInputs ==
    {[text |-> x, reviewText |-> Null] : x \in SummaryTexts}
        \cup {[text |-> Filler(5, 0, FALSE), reviewText |-> y] : y \in SummaryTexts}
        \cup {[text |-> Filler(150, 61, FALSE), reviewText |-> Filler(8, 0, TRUE)]}

SummaryInit == SysIdle /\ pc = "call" /\ arg \in SummaryInputs /\ ret = <<>>

\* One evaluation of summary: summarize(context.reviewText || text).
SummaryCall ==
    /\ pc = "call"
    /\ ret' = SummaryOf(arg)
    /\ pc' = "done"
    /\ UNCHANGED <<arg, sysvars>>

SummaryNext == SummaryCall

SummarySpec == SummaryInit /\ [][SummaryNext]_vars

\* The source of the summary with its white space collapsed.
Collapsed(s) == trim(CollapseWs(IF Truthy(s.reviewText) THEN s.reviewText ELSE s.text))

\* C22: the summary has at most 140 characters and is non-empty when text is;
\* it is the collapsed source (reviewText, or text when there is none) when
\* that has at most 140 characters; otherwise it is a beginning of the
\* collapsed source that ends with a period, or the first 139 characters of
\* it followed by an ellipsis.
C22_SummaryBounded ==
    pc = "done" =>
        /\ Len(ret) <= 140
        /\ arg.text # <<>> => ret # <<>>
        /\ Len(Collapsed(arg)) <= 140 => ret = Collapsed(arg)
        /\ Len(Collapsed(arg)) > 140 =>
              \/ /\ ret[Len(ret)] = "."
                 /\ ret = SubSeq(Collapsed(arg), 1, Len(ret))
              \/ /\ ret[Len(ret)] = "ELLIPSIS"
                 /\ SubSeq(ret, 1, Len(ret) - 1) = SubSeq(Collapsed(arg), 1, Len(ret) - 1)

\* A text longer than 140 characters without a period between the 61st and
\* the 140th: the summary is 139 characters and the ellipsis.
C22_Witness ==
    /\ pc = "done"
    /\ arg.reviewText = Null
    /\ Len(Collapsed(arg)) > 140
    /\ Len(ret) = 140
    /\ ret[140] = "ELLIPSIS"

\* A text longer than 140 characters with a period in that range: the summary
\* ends with it.
C22_WitnessSentence ==
    /\ pc = "done"
    /\ Len(Collapsed(arg)) > 140
    /\ Len(ret) < 140
    /\ ret[Len(ret)] = "."

(***************************************************************************)
(* The id of a suggestion and the hash of its text                         *)
(***************************************************************************)
\* Texts a list item of a comment can hold.
IdTexts ==
    {<<"l","i","q","u","i","d">>,
     <<"c","o","s","t","a","r","r","i","n","g">>,
     <<"a","l","t","a","r","a","g","e">>,
     <<"z","i","n","k","e">>,
     <<"d","e","c","l","i","n","a","t","e">>,
     <<"m","a","c","a","l","l","u","m","s">>,
     <<"U","s","e"," ","y">>,
     <<"U","s","e"," ","z">>,
     <<"A","d","d"," ","a"," ","g","u","a","r","d">>,
     <<"R","e","n","a","m","e"," ","x">>}

\* Two texts at one place: the same container, comment index and item index.
IdInputs ==
    [frameId : {FrameIdPrefix \o <<"2">>}, idx : {0, 1}, i : {0, 1}, a : IdTexts, b : IdTexts]

IdInit == SysIdle /\ pc = "call" /\ arg \in IdInputs /\ ret = <<>>

\* const id = `${frameId}:${idx}:${i}:${hashString(text)}`, once for each of
\* the two texts.
ComposeIds ==
    /\ pc = "call"
    /\ ret' = <<MakeId([id |-> arg.frameId], arg.idx, arg.i, arg.a),
                MakeId([id |-> arg.frameId], arg.idx, arg.i, arg.b)>>
    /\ pc' = "done"
    /\ UNCHANGED <<arg, sysvars>>

IdNext == ComposeIds

IdSpec == IdInit /\ [][IdNext]_vars

\* C23: two different texts at the same container, comment index and item
\* index get different ids.
C23_TextHashDistinguishes ==
    (pc = "done" /\ arg.a # arg.b) => ret[1] # ret[2]

(***************************************************************************)
(* background.js: the relay of a click on the extension's icon             *)
(*                                                                         *)
(* In RelaySpec pc is the place toggleOrOpenPanel has reached, ret is the  *)
(* record of the messages it has sent, whether each was answered, and the  *)
(* value it returns, and arg is the panel of the content script in the     *)
(* tab: its class "open", and how often the toggle handler has changed it. *)
(* The content script runs in the tab when location is not empty.          *)
(***************************************************************************)
ToggleMessage == "CRTP_TOGGLE_PANEL"
OpenMessage   == "CRTP_OPEN_PANEL"
RefreshType   == "CRTP_REFRESH"

\* chrome.runtime.onMessage has a listener in the tab: the script went past
\* the isPRPage test when the page was loaded.
Listening == location # <<>>

\* sendMessageSafe: the message is logged with whether a response came back;
\* lastError, or a throwing sendMessage, resolves to null.
Sent(type, answered) ==
    [ret EXCEPT !.sent = Append(@, type), !.answered = Append(@, answered)]

Returns(log, value) == [log EXCEPT !.result = <<value>>]

RelayInit ==
    /\ pc = "toggle"
    /\ ret = [sent |-> <<>>, answered |-> <<>>, result |-> <<>>]
    /\ events = 0
    /\ response = <<>>
    /\ writing = <<>>
    /\ deselectedAt = {} /\ ignoredAt = {}
    /\ \/ /\ \E pathname \in Pathnames : \E tree \in StageTrees(pathname) :
                Start(pathname, tree, <<>>)
          /\ arg \in [open : BOOLEAN, toggled : {0}]
       \/ /\ SysIdle
          /\ arg = [open |-> FALSE, toggled |-> 0]

\* An answered toggle after which the relay goes on to send the open message.
RelayToggle_AlsoOpens ==
    /\ pc = "toggle"
    /\ IF Listening
       THEN /\ arg' = [open |-> ~arg.open, toggled |-> arg.toggled + 1]
            /\ response' = <<[ok |-> TRUE]>>
            /\ ret' = Sent(ToggleMessage, TRUE)
            /\ pc' = "open"
       ELSE /\ ret' = Sent(ToggleMessage, FALSE)
            /\ pc' = "open"
            /\ UNCHANGED <<arg, response>>
    /\ UNCHANGED <<Script, Tab, Timers, Selection, statusMsg, writing, events>>

\* 1) Try toggle.  The handler calls UI.togglePanel() and answers.
RelayToggle ==
    /\ pc = "toggle"
    /\ IF Listening
       THEN /\ arg' = [open |-> ~arg.open, toggled |-> arg.toggled + 1]
            /\ response' = <<[ok |-> TRUE]>>
            /\ ret' = Returns(Sent(ToggleMessage, TRUE), TRUE)
            /\ pc' = "done"
       ELSE /\ ret' = Sent(ToggleMessage, FALSE)
            /\ pc' = "open"
            /\ UNCHANGED <<arg, response>>
    /\ UNCHANGED <<Script, Tab, Timers, Selection, statusMsg, writing, events>>

\* 2) Try open.  The handler calls UI.openPanel() and answers.
RelayOpen ==
    /\ pc = "open"
    /\ IF Listening
       THEN /\ arg' = [arg EXCEPT !.open = TRUE]
            /\ response' = <<[ok |-> TRUE]>>
            /\ ret' = Returns(Sent(OpenMessage, TRUE), TRUE)
            /\ pc' = "done"
       ELSE /\ ret' = Sent(OpenMessage, FALSE)
            /\ pc' = "refresh"
            /\ UNCHANGED <<arg, response>>
    /\ UNCHANGED <<Script, Tab, Timers, Selection, statusMsg, writing, events>>

\* 3) Try refresh.  The handler calls state.refresh() and answers; without
\* an answer the relay returns false.
RelayRefresh ==
    /\ pc = "refresh"
    /\ IF Listening
       THEN /\ RequestRefresh
            /\ response' = <<[ok |-> TRUE]>>
            /\ ret' = Sent(RefreshType, TRUE)
            /\ pc' = "sleep"
       ELSE /\ ret' = Returns(Sent(RefreshType, FALSE), FALSE)
            /\ pc' = "done"
            /\ NoRequest
            /\ UNCHANGED response
    /\ UNCHANGED <<arg, Script, Tab, Selection, statusMsg, writing, events, observerTimers,
                   owed>>

\* await sleep(200): time passes in the tab, and the debounced extraction
\* runs when its timeout expires.
SleepTick == pc = "sleep" /\ Tick

SleepFire == pc = "sleep" /\ RefreshFire

\* The sleep is over: the relay goes on.
Wake ==
    /\ pc = "sleep"
    /\ ~Due
    /\ pc' = "reopen"
    /\ UNCHANGED <<arg, ret, sysvars>>

\* The open message after the refresh.
RelayReopen ==
    /\ pc = "reopen"
    /\ IF Listening
       THEN /\ arg' = [arg EXCEPT !.open = TRUE]
            /\ response' = <<[ok |-> TRUE]>>
            /\ ret' = Returns(Sent(OpenMessage, TRUE), TRUE)
       ELSE /\ ret' = Returns(Sent(OpenMessage, FALSE), FALSE)
            /\ UNCHANGED <<arg, response>>
    /\ pc' = "done"
    /\ UNCHANGED <<Script, Tab, Timers, Selection, statusMsg, writing, events>>

\* While the relay is under way the tab loads a pull-request page: the
\* script starts and mounts a new, closed panel.
TabLoads(pathname) ==
    /\ pc # "done"
    /\ Event
    /\ ScriptStarts(pathname)
    /\ arg' = [arg EXCEPT !.open = FALSE]
    /\ UNCHANGED <<ret, pc, localStorage, deselectedAt, ignoredAt>>

\* The tab loads a page that is not a pull request: no script runs in it.
TabLeaves ==
    /\ pc # "done"
    /\ Listening
    /\ Event
    /\ location' = <<>>
    /\ doc' = <<>>
    /\ suggestions' = <<>>
    /\ deselected' = <<>>
    /\ ignored' = <<>>
    /\ statusMsg' = <<>>
    /\ refreshTimers' = {}
    /\ observerTimers' = {}
    /\ snapshot' = [taken |-> FALSE, tree |-> <<>>]
    /\ lastRun' = [kind |-> "none", served |-> 0]
    /\ burst' = 0
    /\ sinceRequest' = 0
    /\ owed' = FALSE
    /\ arg' = [arg EXCEPT !.open = FALSE]
    /\ UNCHANGED <<ret, pc, localStorage, deselectedAt, ignoredAt, writing>>

RelayNext ==
    \/ RelayToggle
    \/ RelayOpen
    \/ RelayRefresh
    \/ SleepTick
    \/ SleepFire
    \/ Wake
    \/ RelayReopen
    \/ \E pathname \in {PullOne, PullTwo} : TabLoads(pathname)
    \/ TabLeaves

RelaySpec == RelayInit /\ [][RelayNext]_vars

\* The messages of one click, in the order the relay can send them.
RelayOrder == <<ToggleMessage, OpenMessage, RefreshType, OpenMessage>>

\* C24: the relay sends the toggle first; after an answered toggle it sends
\* nothing more and the panel has been toggled once; the open message follows
\* only an unanswered toggle, the refresh only an unanswered open, the second
\* open only an answered refresh; the relay has returned exactly when it is
\* done, and returns true exactly when the toggle, the open or the open
\* after the refresh was answered.
C24_IconClickRelay ==
    LET n == Len(ret.sent)
    IN  /\ Len(ret.answered) = n
        /\ n <= 4
        /\ ret.sent = SubSeq(RelayOrder, 1, n)
        /\ (n >= 1 /\ ret.answered[1]) => (n = 1 /\ arg.toggled = 1)
        /\ n >= 2 => ~ret.answered[1]
        /\ n >= 3 => ~ret.answered[2]
        /\ n = 4 => ret.answered[3]
        /\ arg.toggled <= 1
        /\ (pc = "toggle") = (n = 0)
        /\ (pc = "done") = (ret.result # <<>>)
        /\ pc = "done" =>
              ret.result = << \/ ret.answered[1]
                              \/ (n >= 2 /\ ret.answered[2])
                              \/ (n = 4 /\ ret.answered[4]) >>

\* The toggle was answered: one message, one change of the panel.
C24_Witness ==
    /\ pc = "done"
    /\ ret.sent = <<ToggleMessage>>
    /\ ret.result = <<TRUE>>
    /\ arg.toggled = 1

\* Toggle and open unanswered, refresh answered, open answered after it.
C24_WitnessAfterRefresh ==
    /\ pc = "done"
    /\ Len(ret.sent) = 4
    /\ ret.answered = <<FALSE, FALSE, TRUE, TRUE>>
    /\ ret.result = <<TRUE>>
    /\ arg.open

\* The refresh was answered and the open after it was not: false.
C24_WitnessFailed ==
    /\ pc = "done"
    /\ ret.answered = <<FALSE, FALSE, TRUE, FALSE>>
    /\ ret.result = <<FALSE>>

\* C25: a click on Select All/None puts every visible id into the deselected
\* set when none of them was in it, and takes every visible id out of it
\* otherwise; the ignored set is as before, an id that is not visible is in
\* the deselected set afterwards exactly if it was before, and the set is
\* written to its key (when the store accepts the write, the key holds the
\* new set; when it refuses, the store is left as it was).
C25_SelectAllNone ==
    [][\A stored \in BOOLEAN :
          onSelectAll(stored) =>
              /\ IF \A id \in PanelIds : ~SetHas(deselected, id)
                 THEN \A id \in PanelIds : SetHas(deselected', id)
                 ELSE \A id \in PanelIds : ~SetHas(deselected', id)
              /\ ignored' = ignored
              /\ \A id \in (Range(deselected) \cup Range(deselected')) \ PanelIds :
                    SetHas(deselected', id) = SetHas(deselected, id)
              /\ IF stored
                 THEN getItem(localStorage', DeselectedKey(location)) = JSONStringify(deselected')
                 ELSE localStorage' = localStorage]_vars

\* One click, with two suggestions listed and none deselected before it:
\* both are deselected, and stored.
C25_Witness ==
    /\ events = 1
    /\ Len(suggestions) = 2
    /\ Len(deselected) = 2
    /\ PanelIds = Range(deselected)
    /\ getDeselectedSet(localStorage, location) = deselected

(***************************************************************************)
(* The CRTP_BUILD_PROMPT, CRTP_BUILD_MARKDOWN and CRTP_BUILD_JSON handlers *)
(*                                                                         *)
(* In RequestSpec arg is the message: whether its ids member is an array,  *)
(* and the ids it lists.  state.suggestions holds full Suggestion records. *)
(***************************************************************************)
\* Array.prototype.includes
ArrayIncludes(ids, id) == \E k \in 1..Len(ids) : ids[k] = id

\* Array.isArray(msg.ids) ? msg.ids : []
IdsOf(msg) == IF msg.isArray THEN msg.ids ELSE <<>>

\* state.suggestions.filter((s) => ids.includes(s.id))
RECURSIVE RequestedItems(_, _)
RequestedItems(list, ids) ==
    IF list = <<>> THEN <<>>
    ELSE (IF ArrayIncludes(ids, Head(list).id) THEN <<Head(list)>> ELSE <<>>)
         \o RequestedItems(Tail(list), ids)

\* An id no suggestion has.
UnknownId == <<"t","9",":","0",":","0",":","z","9">>

ListedIds == {s.id : s \in ItemPalette} \cup {UnknownId}

Messages ==
    {[isArray |-> TRUE, ids |-> q] : q \in SeqsUpTo(ListedIds, 2)}
        \cup {[isArray |-> FALSE, ids |-> <<>>]}

\* Lists of suggestions with different ids.
Extracted ==
    {q \in SeqsUpTo(ItemPalette, MaxItems) : \A i, j \in 1..Len(q) : q[i] = q[j] => i = j}

RequestInit ==
    /\ pc = "call" /\ ret = <<>>
    /\ arg \in Messages
    /\ location = PullOne
    /\ doc = <<>>
    /\ localStorage = <<>>
    /\ suggestions \in Extracted
    /\ deselected = <<>>
    /\ ignored \in {<<>>} \cup {<<suggestions[k].id>> : k \in 1..Len(suggestions)}
    /\ statusMsg = <<>>
    /\ refreshTimers = {}
    /\ observerTimers = {}
    /\ response = <<>>
    /\ events = 0
    /\ snapshot = [taken |-> FALSE, tree |-> <<>>]
    /\ lastRun = [kind |-> "none", served |-> 0]
    /\ burst = 0
    /\ sinceRequest = 0
    /\ owed = FALSE
    /\ deselectedAt = {}
    /\ ignoredAt = {}
    /\ writing = <<>>

\* The reply of a handler: sendResponse({ [member]: output }).
Reply(member, output) == [member |-> member, output |-> output]

BuildPromptMessage ==
    /\ pc = "call"
    /\ response' = <<Reply("prompt", buildPrompt(RequestedItems(suggestions, IdsOf(arg)),
                                                 Origin \o location))>>
    /\ pc' = "prompt"
    /\ UNCHANGED <<arg, ret, writing, statusMsg, Script, Tab, Selection, Timers, events>>

BuildMarkdownMessage ==
    /\ pc = "call"
    /\ response' = <<Reply("markdown", buildMarkdown(RequestedItems(suggestions, IdsOf(arg)),
                                                     Origin \o location))>>
    /\ pc' = "markdown"
    /\ UNCHANGED <<arg, ret, writing, statusMsg, Script, Tab, Selection, Timers, events>>

BuildJSONMessage ==
    /\ pc = "call"
    /\ response' = <<Reply("json", buildJSON(RequestedItems(suggestions, IdsOf(arg)),
                                             Origin \o location))>>
    /\ pc' = "json"
    /\ UNCHANGED <<arg, ret, writing, statusMsg, Script, Tab, Selection, Timers, events>>

RequestNext == BuildPromptMessage \/ BuildMarkdownMessage \/ BuildJSONMessage

RequestSpec == RequestInit /\ [][RequestNext]_vars

\* The extracted suggestions, in order, whose id is in the list of the message
\* and not in the ignored set.
ListedAndShown ==
    LET keep == {k \in 1..Len(suggestions) :
                    /\ arg.isArray
                    /\ \E i \in 1..Len(arg.ids) : arg.ids[i] = suggestions[k].id
                    /\ ~SetHas(ignored, suggestions[k].id)}
    IN  [i \in 1..Cardinality(keep) |-> suggestions[Kth(keep, i)]]

\* C28: the output of a build message is the output, in the asked format, for
\* the extracted suggestions whose id is in the message's list and not in the
\* ignored set, in the order of state.suggestions; a message without an
\* array of ids gets the output for no suggestion.
C28_BuildFromListedIds ==
    /\ pc = "prompt" =>
          response[1].output = buildPrompt(ListedAndShown, Origin \o location)
    /\ pc = "markdown" =>
          response[1].output = buildMarkdown(ListedAndShown, Origin \o location)
    /\ pc = "json" =>
          response[1].output = buildJSON(ListedAndShown, Origin \o location)

(***************************************************************************)
(* popup.js                                                                *)
(*                                                                         *)
(* In PopupSpec arg is the popup's memory of the last query (lastSuggestions*)
(* and lastSelectedIds) with the address of the tab, ret is what the popup *)
(* shows and has done (the Copy Selected button usable or not, the status  *)
(* line, the ids of the build request, the text handed to the clipboard),  *)
(* and pc is the place the popup has reached.  The content script's state  *)
(* is that of the tab.                                                     *)
(***************************************************************************)
OpenPRStatus == <<"O","p","e","n"," ","a"," ","G","i","t","H","u","b"," ","P","R"," ","p","a","g","e"," ","t","o"," ","u","s","e"," ","t","h","i","s"," ","e","x","t","e","n","s","i","o","n",".">>

NoneAvailableStatus == <<"N","o"," ","s","u","g","g","e","s","t","i","o","n","s"," ","a","v","a","i","l","a","b","l","e"," ","t","o"," ","c","o","p","y",".">>

UnableToBuildStatus == <<"C","o","p","y"," ","f","a","i","l","e","d",":"," ","u","n","a","b","l","e"," ","t","o"," ","b","u","i","l","d"," ","p","r","o","m","p","t",".">>

PopupCopiedStatus(n) == <<"C","o","p","i","e","d"," ">> \o ToDigits(n) \o <<" ","s","u","g","g","e","s","t","i","o","n","(","s",")",".">>

\* The block of the popup's prompt for the item at index idx (from 0).
PopupBlock(s, idx) ==
    Join(FilterBoolean(<< <<"#">> \o ToDigits(idx + 1) \o <<" ">> \o s.summary,
                          IF s.text # s.summary THEN <<"D","e","t","a","i","l","s",":","\n">> \o s.text ELSE <<>>,
                          IF Truthy(s.sourceUrl) THEN <<"S","o","u","r","c","e",":"," ">> \o s.sourceUrl ELSE <<>>,
                          <<>> >>), NL)

RECURSIVE PopupBlocks(_, _)
PopupBlocks(items, idx) ==
    IF items = <<>> THEN <<>>
    ELSE <<PopupBlock(Head(items), idx)>> \o PopupBlocks(Tail(items), idx + 1)

\* buildPrompt(prUrl, items) of the popup.
PopupBuildPrompt(prUrl, items) ==
    Join(FilterBoolean(<< <<"T","a","s","k",":"," ","A","p","p","l","y"," ","t","h","e"," ","f","o","l","l","o","w","i","n","g"," ","r","e","v","i","e","w"," ","s","u","g","g","e","s","t","i","o","n","s"," ","f","r","o","m"," ","G","i","t","H","u","b"," ","C","o","p","i","l","o","t"," ","t","o"," ","t","h","e"," ","c","o","d","e","b","a","s","e"," ","i","n"," ","t","h","i","s"," ","P","R",".">>,
                          IF Truthy(prUrl) THEN <<"P","R",":"," ">> \o prUrl ELSE <<>>,
                          <<"I","n","s","t","r","u","c","t","i","o","n","s",":">>,
                          <<"-"," ","F","o","r"," ","e","a","c","h"," ","i","t","e","m",","," ","i","m","p","l","e","m","e","n","t"," ","t","h","e"," ","c","h","a","n","g","e"," ","d","e","s","c","r","i","b","e","d",".">>,
                          <<"-"," ","I","f"," ","m","u","l","t","i","p","l","e"," ","f","i","l","e","s"," ","a","r","e"," ","i","m","p","a","c","t","e","d",","," ","u","p","d","a","t","e"," ","a","l","l"," ","r","e","l","e","v","a","n","t"," ","l","o","c","a","t","i","o","n","s",".">>,
                          <<"-"," ","P","r","e","s","e","r","v","e"," ","e","x","i","s","t","i","n","g"," ","b","e","h","a","v","i","o","r"," ","u","n","l","e","s","s"," ","a"," ","c","h","a","n","g","e"," ","i","s"," ","e","x","p","l","i","c","i","t","l","y"," ","r","e","q","u","e","s","t","e","d",".">>,
                          <<>> >>), NL)
        \o NL \o Join(PopupBlocks(items, 0), NL)

Shown(enabled, status) ==
    [enabled |-> enabled, status |-> status, request |-> <<>>, written |-> <<>>]

PopupInit ==
    /\ pc = "open"
    /\ arg \in [lastSuggestions : {<<>>}, lastSelectedIds : {<<>>},
                url : {Origin \o PullOne, <<>>}]
    /\ ret = Shown(FALSE, <<>>)
    /\ doc = <<>>
    /\ localStorage = <<>>
    /\ \/ /\ location = PullOne
          /\ suggestions \in Extracted
          /\ deselected \in {SubSeq(Ids(suggestions), 1, k) : k \in 0..Len(suggestions)}
          /\ ignored \in {<<>>} \cup {<<suggestions[k].id>> : k \in 1..Len(suggestions)}
       \/ /\ location = <<>>
          /\ suggestions = <<>> /\ deselected = <<>> /\ ignored = <<>>
    /\ statusMsg = <<>>
    /\ refreshTimers = {}
    /\ observerTimers = {}
    /\ response = <<>>
    /\ events = 0
    /\ snapshot = [taken |-> FALSE, tree |-> <<>>]
    /\ lastRun = [kind |-> "none", served |-> 0]
    /\ burst = 0
    /\ sinceRequest = 0
    /\ owed = FALSE
    /\ deselectedAt = {}
    /\ ignoredAt = {}
    /\ writing = <<>>

\* queryInfo, answered: the reply of the CRTP_QUERY handler is remembered
\* and updateUI shows the counts; the button is disabled when found is 0 and
\* hidden when the page is no pull request.
PopupQuery ==
    /\ pc \in {"open", "ready"}
    /\ Listening
    /\ LET list        == Visible(suggestions, ignored)
           selectedIds == SelectedIds(list, deselected)
       IN  /\ response' = << [isPR        |-> isPRPage(location),
                              hasCRTP     |-> TRUE,
                              found       |-> Len(list),
                              selected    |-> Len(selectedIds),
                              suggestions |-> list,
                              selectedIds |-> selectedIds] >>
           /\ arg' = [arg EXCEPT !.lastSuggestions = list, !.lastSelectedIds = selectedIds]
           /\ ret' = IF isPRPage(location) THEN Shown(Len(list) # 0, <<>>)
                     ELSE Shown(FALSE, OpenPRStatus)
    /\ pc' = "ready"
    /\ UNCHANGED <<writing, statusMsg, Script, Tab, Selection, Timers, events>>

\* queryInfo, unanswered also after the injection of content.js: the memory
\* is emptied and the buttons are hidden.
PopupQueryFails ==
    /\ pc \in {"open", "ready"}
    /\ ~Listening
    /\ arg' = [arg EXCEPT !.lastSuggestions = <<>>, !.lastSelectedIds = <<>>]
    /\ ret' = Shown(FALSE, OpenPRStatus)
    /\ pc' = "ready"
    /\ UNCHANGED sysvars

\* While the popup is open the page loses its first thread and the list is
\* extracted again, or the tab is left for a page without the script.
PageReextracts ==
    /\ pc \in {"ready", "asked"}
    /\ Listening
    /\ events = 0
    /\ events' = 1
    /\ suggestions # <<>>
    /\ suggestions' = Tail(suggestions)
    /\ UNCHANGED <<arg, ret, pc, writing, statusMsg, snapshot, lastRun, Tab, Selection, Timers,
                   response>>

TabIsLeft ==
    /\ pc \in {"ready", "asked"}
    /\ Listening
    /\ events = 0
    /\ events' = 1
    /\ location' = <<>>
    /\ suggestions' = <<>>
    /\ deselected' = <<>>
    /\ ignored' = <<>>
    /\ UNCHANGED <<arg, ret, pc, writing, statusMsg, snapshot, lastRun, doc, localStorage,
                   deselectedAt, ignoredAt, Timers, response>>

\* A click that writes the prompt of the selected ids only, also when none
\* is selected.
copySelectedPrompt_SelectedOnly ==
    /\ pc = "ready"
    /\ ret.enabled
    /\ IF arg.lastSelectedIds = <<>>
       THEN /\ ret' = [ret EXCEPT !.request = <<>>,
                                  !.written = <<PopupBuildPrompt(arg.url, <<>>)>>]
            /\ pc' = "writing"
       ELSE /\ ret' = [ret EXCEPT !.request = <<arg.lastSelectedIds>>, !.written = <<>>]
            /\ pc' = "asked"
    /\ UNCHANGED <<arg, sysvars>>

\* copySelectedPrompt, up to the write or the request it issues.
copySelectedPrompt ==
    /\ pc = "ready"
    /\ ret.enabled
    /\ IF arg.lastSelectedIds = <<>>
       THEN IF Len(arg.lastSuggestions) > 0
            THEN /\ ret' = [ret EXCEPT !.request = <<>>,
                                       !.written = <<PopupBuildPrompt(arg.url, arg.lastSuggestions)>>]
                 /\ pc' = "writing"
            ELSE /\ ret' = [ret EXCEPT !.request = <<>>, !.written = <<>>,
                                       !.status = NoneAvailableStatus]
                 /\ pc' = "ready"
       ELSE /\ ret' = [ret EXCEPT !.request = <<arg.lastSelectedIds>>, !.written = <<>>]
            /\ pc' = "asked"
    /\ UNCHANGED <<arg, sysvars>>

\* The CRTP_BUILD_PROMPT handler answers the request, and the popup hands
\* resp.prompt to the clipboard.
BuildReply ==
    /\ pc = "asked"
    /\ Listening
    /\ response' = <<Reply("prompt", buildPrompt(RequestedItems(suggestions, ret.request[1]),
                                                 Origin \o location))>>
    /\ ret' = [ret EXCEPT !.written = <<response'[1].output>>]
    /\ pc' = "writing"
    /\ UNCHANGED <<arg, writing, statusMsg, Script, Tab, Selection, Timers, events>>

\* The request is not answered: lastError.
BuildNoReply ==
    /\ pc = "asked"
    /\ ~Listening
    /\ ret' = [ret EXCEPT !.status = UnableToBuildStatus]
    /\ pc' = "ready"
    /\ UNCHANGED <<arg, sysvars>>

\* The number the "Copied" status shows.
CopiedCount == IF ret.request = <<>> THEN Len(arg.lastSuggestions) ELSE Len(ret.request[1])

PopupWriteResolved ==
    /\ pc = "writing"
    /\ ret' = [ret EXCEPT !.status = PopupCopiedStatus(CopiedCount)]
    /\ pc' = "ready"
    /\ UNCHANGED <<arg, sysvars>>

PopupWriteRejected(message) ==
    /\ pc = "writing"
    /\ ret' = [ret EXCEPT !.status = CopyFailedStatus(message)]
    /\ pc' = "ready"
    /\ UNCHANGED <<arg, sysvars>>

PopupNext ==
    \/ PopupQuery
    \/ PopupQueryFails
    \/ PageReextracts
    \/ TabIsLeft
    \/ copySelectedPrompt
    \/ BuildReply
    \/ BuildNoReply
    \/ PopupWriteResolved
    \/ \E message \in RejectMessages : PopupWriteRejected(message)

PopupSpec == PopupInit /\ [][PopupNext]_vars

\* The lines of a text that begin a block of the popup's prompt: "#k " and
\* the summary of an item.
PopupHeads(text) == {k \in 1..Len(SplitLines(text)) : StartsWithAt(SplitLines(text)[k], 1, <<"#">>)}

C26_WitnessSelected ==
    /\ pc = "writing"
    /\ Len(arg.lastSuggestions) = 2
    /\ Len(arg.lastSelectedIds) = 1
    /\ ret.written = <<response[1].output>>

\* C27: an extraction run leaves the deselected and the ignored set and the
\* store as they were; and a run on the tree of the run before it leaves the
\* selected ids, those a CRTP_QUERY reply would list, as they were.
C27_ReextractionKeepsSelection ==
    [][RefreshFire =>
          /\ deselected' = deselected
          /\ ignored' = ignored
          /\ localStorage' = localStorage
          /\ (snapshot.taken /\ snapshot.tree = doc) =>
                SelectedIds(Visible(suggestions', ignored'), deselected')
                    = SelectedIds(Visible(suggestions, ignored), deselected)]_vars

\* A second run on an unchanged tree, with two suggestions of which one is
\* deselected, in memory and in the store.
C27_Witness ==
    /\ lastRun.kind = "rerun"
    /\ Len(suggestions) = 2
    /\ Len(deselected) = 1
    /\ getDeselectedSet(localStorage, location) = deselected
    /\ Len(SelectedIds(Visible(suggestions, ignored), deselected)) = 1

\* C29: while the script runs, state.suggestions changes only in a run of the
\* debounced extraction, which sets it to the list extracted from the tree as
\* it then is; every other step (checkbox, Select All/None, Skip, copy, a
\* settled clipboard write, query, refresh request, navigation, mutation,
\* passage of time) leaves the list and its records as they were.  A full
\* page load starts the script anew, with an empty list.
C29_ListChangesOnlyInRuns ==
    [][suggestions' # suggestions =>
          \/ RefreshFire /\ suggestions' = extractAllSuggestions(doc)
          \/ \E pathname \in Pathnames : PageLoad(pathname)]_vars

\* Two suggestions are held, one of them skipped and one deselected, and a
\* refresh request is pending: the list is the one of the last run.
C29_Witness ==
    /\ Len(suggestions) = 2
    /\ suggestions = extractAllSuggestions(snapshot.tree)
    /\ ignored # <<>>
    /\ deselected # <<>>
    /\ refreshTimers # {}
    /\ events = 3

(***************************************************************************)
(* Extraction over a tree with nested elements                             *)
(*                                                                         *)
(* An element is a record: kind "frame" for a turbo-frame whose id begins  *)
(* with "review-thread-or-comment-id-" (key is its id), "root" for an      *)
(* element that matches 'article, .js-comment, div[id^="discussion_r"]',   *)
(* "body" for a .js-comment-body / .comment-body element (key names it,    *)
(* blocks is its content) and "other" for any other element; kids are its  *)
(* child elements in document order.                                       *)
(***************************************************************************)
Element(kind, key, blocks, kids) == [kind |-> kind, key |-> key, blocks |-> blocks, kids |-> kids]

FrameEl(n, kids) == Element("frame", FrameIdPrefix \o ToDigits(n), <<>>, kids)
RootEl(kids)     == Element("root", <<>>, <<>>, kids)
BodyEl(key, blocks) == Element("body", key, blocks, <<>>)
OtherEl(kids)    == Element("other", <<>>, <<>>, kids)

\* The elements of a forest in document order, as querySelectorAll visits them.
RECURSIVE InDocumentOrder(_)
InDocumentOrder(els) ==
    IF els = <<>> THEN <<>>
    ELSE <<Head(els)>> \o InDocumentOrder(Head(els).kids) \o InDocumentOrder(Tail(els))

IsFrameEl(el) == el.kind = "frame"
IsRootEl(el)  == el.kind = "root"
IsBodyEl(el)  == el.kind = "body"

\* el.querySelectorAll(selector): the matching descendants of el.
Descendants(el) == InDocumentOrder(el.kids)

\* c.querySelector(".js-comment-body, .comment-body, ..."): the candidate holds a body.
HoldsBody(c) == \E k \in 1..Len(Descendants(c)) : IsBodyEl(Descendants(c)[k])

\* commentRoot.querySelector(".js-comment-body, .comment-body"): the first
\* body below the root, in document order.
FirstBody(c) == SelectSeq(Descendants(c), IsBodyEl)[1]

\* findCommentRootsInTurboFrame on a frame element.
CommentRootsOf(frameEl) == SelectSeq(SelectSeq(Descendants(frameEl), IsRootEl), HoldsBody)

\* Each record with the frame, the index and the body it was taken from.
RECURSIVE Tagged(_, _, _, _)
Tagged(recs, frameKey, idx, bodyKey) ==
    IF recs = <<>> THEN <<>>
    ELSE <<[frame |-> frameKey, idx |-> idx, body |-> bodyKey, s |-> Head(recs)]>>
         \o Tagged(Tail(recs), frameKey, idx, bodyKey)

\* What the loops push for the comment root at index idx of a frame.
Emitted(frameEl, c, idx) ==
    Tagged(SuggestionsOfComment(Frame(frameEl.key, FALSE, <<>>, <<>>, <<>>, <<>>, <<>>),
                                CommentRoot(<<>>, <<>>, <<>>, FALSE, TRUE, FirstBody(c).blocks),
                                idx),
           frameEl.key, idx, FirstBody(c).key)

RECURSIVE EmittedFrom(_, _, _)
EmittedFrom(frameEl, roots, idx) ==
    IF idx >= Len(roots) THEN <<>>
    ELSE Emitted(frameEl, roots[idx + 1], idx) \o EmittedFrom(frameEl, roots, idx + 1)

RECURSIVE EmittedOfFrames(_)
EmittedOfFrames(frameEls) ==
    IF frameEls = <<>> THEN <<>>
    ELSE EmittedFrom(Head(frameEls), CommentRootsOf(Head(frameEls)), 0)
         \o EmittedOfFrames(Tail(frameEls))

EmittedByCopilot(e) == e.s.isCopilot

\* hasCopilot ? all.filter((s) => s.isCopilot) : all
FilterEmitted(all) ==
    IF \E k \in 1..Len(all) : all[k].s.isCopilot
    THEN SelectSeq(all, EmittedByCopilot)
    ELSE all

\* extractAllSuggestions on a document given as its top-level elements.
ExtractFromTree(els) ==
    FilterEmitted(EmittedOfFrames(SelectSeq(InDocumentOrder(els), IsFrameEl)))

BodyContents ==
    { <<Li(<<"U","s","e"," ","y">>)>>,
      <<Li(<<"A","d","d"," ","a"," ","g","u","a","r","d">>), Li(<<"R","e","n","a","m","e"," ","x">>)>>,
      <<Para(<<"F","i","x",":"," ","r","e","n","a","m","e"," ","x">>)>>,
      <<Li(<<"A","d","d"," ","a"," ","t","e","s","t">>)>> }

\* Documents: comment roots side by side, a root inside a root, a frame
\* inside a frame, a root without a body, two frames.
Documents ==
    UNION { { <<FrameEl(1, <<RootEl(<<BodyEl("b1", x)>>), RootEl(<<BodyEl("b2", y)>>)>>)>>,
              <<FrameEl(1, <<RootEl(<<BodyEl("b1", x)>>)>>), FrameEl(2, <<RootEl(<<BodyEl("b2", y)>>)>>)>>,
              <<FrameEl(1, <<RootEl(<<BodyEl("b1", x), RootEl(<<BodyEl("b2", y)>>)>>)>>)>>,
              <<FrameEl(1, <<RootEl(<<RootEl(<<BodyEl("b1", x)>>)>>), RootEl(<<BodyEl("b2", y)>>)>>)>>,
              <<FrameEl(1, <<RootEl(<<OtherEl(<<BodyEl("b1", x)>>)>>)>>)>>,
              <<FrameEl(1, <<RootEl(<<RootEl(<<BodyEl("b1", x)>>)>>)>>)>>,
              <<FrameEl(1, <<FrameEl(2, <<RootEl(<<BodyEl("b1", x)>>)>>)>>)>>,
              <<FrameEl(1, <<RootEl(<<OtherEl(<<>>)>>), RootEl(<<BodyEl("b1", x)>>)>>)>> }
            : x \in BodyContents, y \in BodyContents }

NestInit == SysIdle /\ pc = "call" /\ arg \in Documents /\ ret = <<>>

\* One extraction pass over the document.
NestCall ==
    /\ pc = "call"
    /\ ret' = ExtractFromTree(arg)
    /\ pc' = "done"
    /\ UNCHANGED <<arg, sysvars>>

NestNext == NestCall

NestSpec == NestInit /\ [][NestNext]_vars

\* The bodies of the document that lie in a comment root inside a frame.
CommentBodies(els) ==
    {el \in Range(InDocumentOrder(els)) :
        /\ IsBodyEl(el)
        /\ \E f \in Range(InDocumentOrder(els)) :
              /\ IsFrameEl(f)
              /\ \E c \in Range(Descendants(f)) : IsRootEl(c) /\ el \in Range(Descendants(c))}

\* C30: in one pass every comment body gives rise to as many Suggestions as
\* it has segmented strings, all of them under one container and one comment
\* index.
C30_EachBodyOnce ==
    pc = "done" =>
        \A b \in CommentBodies(arg) :
            LET from == {k \in 1..Len(ret) : ret[k].body = b.key}
            IN  /\ Cardinality(from)
                      = Len(extractSuggestionsFromComment(
                                CommentRoot(<<>>, <<>>, <<>>, FALSE, TRUE, b.blocks)))
                /\ \A j, k \in from : ret[j].frame = ret[k].frame /\ ret[j].idx = ret[k].idx
=============================================================================
